---- MODULE Spec2Model ----
(***************************************************************************)
(* Device Controller Runtime of ttfoley/mushproject: the controller2       *)
(* (actuator) and controller3 (sensor) firmware FSMs, the MQTT command     *)
(* router, the UniqueQueue / SensorPublishQueue utilities and the          *)
(* RestartReasonLogger.                                                    *)
(*                                                                         *)
(* Arduino Strings are sequences of chunks (a payload is a sequence of     *)
(* one-character strings, so that comparison, case folding and indexOf     *)
(* are computed character by character).  Time is the millis() counter in  *)
(* abstract units; the timeouts are scaled to that unit.                   *)
(***************************************************************************)
EXTENDS Integers, Sequences, FiniteSets, TLC

\* ------------------------------------------------------------------ bounds
MaxTime == 4                      \* millis() is explored up to this value
MaxEvents == 2                    \* accepted commands plus connection losses per boot
MAX_WIFI_ATTEMPTS == 2            \* scaled (controller2: 10)
WIFI_ATTEMPT_TIMEOUT_MS == 1      \* scaled (controller2: 20000)
MAX_NTP_ATTEMPTS == 2             \* scaled (controller2: 5)
NTP_ATTEMPT_TIMEOUT_MS == 1       \* scaled (controller2: 30000)
MQTT_CONNECT_TIMEOUT_MS == 1      \* autogen_config.h, scaled
NTP_LOOP_UPDATE_INTERVAL == 2     \* scaled (controller2: 60000)
OUTPUT_REPUBLISH_FREQUENCY_MS == 2 \* autogen_config.h, scaled
MAX_TIME_NO_PUBLISH_MS == 3       \* autogen_config.h, scaled
PERIODIC_CHECKS_INTERVAL_MS == 2  \* autogen_config.h, scaled
MAINTENANCE_RESTART_INTERVAL_MS == 4 \* autogen_config.h, scaled
timeNeededReadMs == 1             \* SCD4X_TOTAL_READ_TIME_MS, scaled (8300)
publishIntervalMs == 3            \* SCD4X_0_CONFIG.publish_interval_ms, scaled
mainLoopDelayMs == 0              \* SCD4X_0_CONFIG.main_loop_delay_ms, scaled
SENSOR_PUBLISH_FUDGE_FACTOR == 0  \* scaled (100)
MaxCount == 2                     \* history counters saturate here ("this many or more")
BootHorizon == 12                 \* millis() is explored up to this value during boot

\* ------------------------------------------------------------------ strings
EmptyString == <<>>
ON == <<"o", "n">>
OFF == <<"o", "f", "f">>

\* String::equalsIgnoreCase folds ASCII letters; these are the letters of the
\* payload alphabet.
ToLowerChar(c) ==
    CASE c = "O" -> "o"
      [] c = "N" -> "n"
      [] c = "F" -> "f"
      [] OTHER -> c

equalsIgnoreCase(s, t) ==
    /\ Len(s) = Len(t)
    /\ \A i \in 1..Len(s) : ToLowerChar(s[i]) = ToLowerChar(t[i])

\* String::startsWith / endsWith / indexOf(pattern, from) / substring(from, to),
\* with 0-based positions as in Arduino; indexOf gives -1 when absent.
startsWith(s, p) ==
    /\ Len(s) >= Len(p)
    /\ SubSeq(s, 1, Len(p)) = p

endsWith(s, p) ==
    /\ Len(s) >= Len(p)
    /\ SubSeq(s, Len(s) - Len(p) + 1, Len(s)) = p

indexOf(s, p, from) ==
    LET hits == {i \in from..(Len(s) - Len(p)) : SubSeq(s, i + 1, i + Len(p)) = p}
    IN  IF hits = {} THEN -1 ELSE CHOOSE i \in hits : \A j \in hits : i <= j

substring(s, from, to) == SubSeq(s, from + 1, to)

\* ------------------------------------------------------------------ configuration
\* controller2: g_actuatorPoints in creation order, and each point's
\* INITIAL_STATE_<name>.
ActuatorPoints == <<"a1", "a2">>
Actuators == {ActuatorPoints[i] : i \in 1..Len(ActuatorPoints)}
initialState == [a \in Actuators |-> IF a = "a1" THEN "LOW" ELSE "HIGH"]

\* g_topicToActuatorMap: the WRITE topic of each actuator.
WriteTopic(a) == <<"write", a>>
topicToActuatorMap == [t \in {WriteTopic(a) : a \in Actuators} |-> t[2]]
ReadbackTopic(a) == <<"readback", a>>
ReadbackUUID(a) == <<"uuid", a>>
TOPIC_LastRestartReason_DATA == <<"last_restart_reason">>
UUID_LastRestartReason_DATA == <<"uuid", "last_restart_reason">>

\* RestartReason enumeration (uint32 codes as written to Preferences).
UNKNOWN_RESET == 0
WIFI_TIMEOUT == 1
MQTT_TIMEOUT == 2
NTP_TIMEOUT == 3
NOPUBLISH_TIMEOUT == 4
COMMAND_ERROR == 5
SENSOR_ERROR == 6
SENSOR_INIT_FAILED == 7
USER_REQUESTED == 8
FIRMWARE_UPDATE == 9
MAINTENANCE_RESTART == 10
RestartReasons == UNKNOWN_RESET..MAINTENANCE_RESTART

VARIABLES
    \* environment
    now,                   \* millis()
    wifiConnected,         \* WiFi.status() == WL_CONNECTED
    mqttConnected,         \* mqttClient.connected()
    clockValid,            \* system time is past MIN_VALID_EPOCH_TIME_SEC
    epochTime,             \* gettimeofday(), the wall clock
    nvs,                   \* Preferences namespace "restart"
    \* FSM
    currentState, stateStartTime, wifiAttempts, ntpAttempts,
    timeSuccessfullySet,   \* NtpService flag
    lastNtpLoopUpdate,
    publishQueue,          \* g_publishQueue (SensorPublishQueue::_queue on controller3)
    \* controller2
    pendingActuatorCommands, actuatorsToProcessQueue, actuatorsInProcessQueueSet,
    pin,                   \* level last written by digitalWrite, per actuator
    lastSuccessfulPayload, lastPublishTimeMillis,
    \* controller3
    sensorsToReadQueue,    \* UniqueQueue: [queue, tracking]
    sensorsWithPendingData,
    lastReadAttemptMs, lastPublishTimeMs, hasValidReading,
    bootStatusPublished, lastPeriodicCheck,
    \* the most recent direct call of a library operation and what it returned
    callResult,
    \* history
    tick,                  \* what the most recent loop() iteration did
    lastAccepted,          \* per actuator: last payload put into the pending map
    routed,                \* per actuator: router commands accepted since its last dequeue
    bootReports,           \* boot-status items enqueued since process start
    wifiBegins,            \* WiFi.begin() calls of the current CONNECT_WIFI episode
    events                 \* accepted commands and connection losses since process start

envVars == <<now, wifiConnected, mqttConnected, clockValid, epochTime>>
fsmVars == <<currentState, stateStartTime, wifiAttempts, ntpAttempts>>
ntpVars == <<timeSuccessfullySet, lastNtpLoopUpdate>>
cmdVars == <<pendingActuatorCommands, actuatorsToProcessQueue, actuatorsInProcessQueueSet>>
actVars == <<pin, lastSuccessfulPayload, lastPublishTimeMillis>>
c2Vars == <<cmdVars, actVars, lastAccepted>>
c3Vars == <<sensorsToReadQueue, sensorsWithPendingData, lastReadAttemptMs,
            lastPublishTimeMs, hasValidReading, bootStatusPublished, lastPeriodicCheck>>
histVars == <<tick, routed, bootReports, wifiBegins, events>>
vars == <<envVars, nvs, fsmVars, ntpVars, publishQueue, c2Vars, c3Vars,
          callResult, histVars>>


\* ------------------------------------------------------------------ arithmetic
\* unsigned long subtraction wraps; the counter width is scaled with the time unit.
ULONG_BITS == 8
ULONG_MAX == 2^ULONG_BITS - 1
USub(a, b) == (a - b) % (ULONG_MAX + 1)
UAdd(a, b) == (a + b) % (ULONG_MAX + 1)

\* ------------------------------------------------------------------ NtpService
\* update(): the flag is set once the system clock is valid and is never cleared.
NtpUpdate(set) == set \/ clockValid

getFormattedISO8601Time(set) ==
    IF ~set THEN <<"Time not set">> ELSE <<"iso", ToString(epochTime)>>

\* ------------------------------------------------------------------ PublishData
PublishData(topic, uuid, value, timestamp, actuator, sensor) ==
    [topic |-> topic, uuid |-> uuid, serializedValue |-> value,
     timestampIsoUtc |-> timestamp, sourceActuator |-> actuator, sourceSensor |-> sensor]

nullptr == "nullptr"

\* ------------------------------------------------------------------ RestartReasonLogger
\* Preferences: each key is absent (<<>>) or holds one value (<<v>>).
NoRecord == [reason |-> <<>>, timestamp |-> <<>>]

\* variant that keeps a stored timestamp when the time is not synchronized
storeRestartReasonKeepsTimestamp(reason, set) ==
    [reason |-> <<reason>>,
     timestamp |-> IF set THEN <<getFormattedISO8601Time(set)>>
                   ELSE IF nvs.timestamp = <<>> THEN <<EmptyString>> ELSE nvs.timestamp]

\* the record after storeRestartReason, the Preferences namespace having opened
storeRestartReason(reason, set) ==
    [reason |-> <<reason>>,
     timestamp |-> <<IF set THEN getFormattedISO8601Time(set) ELSE EmptyString>>]

\* variant that leaves the stored record in place
clearKeepsRecord(n) == n

clearStoredRestartReason(n) == NoRecord

\* the RestartEvent that getStoredRestartEvent returns (it then clears storage)
getStoredRestartEvent(n) ==
    [reason |-> IF n.reason = <<>> THEN UNKNOWN_RESET ELSE n.reason[1],
     timestamp |-> IF n.timestamp = <<>> THEN EmptyString ELSE n.timestamp[1]]

hasStoredRestartReason(n) == n.reason # <<>>

restartReasonToString(reason) ==
    CASE reason = WIFI_TIMEOUT -> <<"wifi_timeout">>
      [] reason = MQTT_TIMEOUT -> <<"mqtt_timeout">>
      [] reason = NTP_TIMEOUT -> <<"ntp_timeout">>
      [] reason = NOPUBLISH_TIMEOUT -> <<"nopublish_timeout">>
      [] reason = COMMAND_ERROR -> <<"command_", "error">>
      [] reason = SENSOR_ERROR -> <<"sensor_", "error">>
      [] reason = USER_REQUESTED -> <<"user_requested">>
      [] reason = FIRMWARE_UPDATE -> <<"firmware_update">>
      [] reason = MAINTENANCE_RESTART -> <<"maintenance_restart">>
      [] OTHER -> <<"unknown_reset">>

\* variant that always stamps the report with the current time
createPublishDataCurrentTime(n, set, topic, uuid) ==
    PublishData(topic, uuid, restartReasonToString(getStoredRestartEvent(n).reason),
                getFormattedISO8601Time(set), nullptr, nullptr)

createPublishData(n, set, topic, uuid) ==
    LET event == getStoredRestartEvent(n)
        timestampToUse == IF event.timestamp # EmptyString
                          THEN event.timestamp
                          ELSE getFormattedISO8601Time(set)
    IN  PublishData(topic, uuid, restartReasonToString(event.reason), timestampToUse,
                    nullptr, nullptr)

\* ------------------------------------------------------------------ JsonBuilder / publishJson
buildPayload(timestamp, uuid, value) ==
    IF Len(timestamp) = 0 THEN <<"{", "\"", "error", "\":\"", "Timestamp missing", "\"}">>
    ELSE IF Len(uuid) = 0 THEN <<"{", "\"", "error", "\":\"", "UUID missing", "\"}">>
    ELSE <<"{", "\"timestamp_utc\":\"">> \o timestamp \o <<"\",\"value\":\"">> \o value
         \o <<"\",\"uuid\":\"">> \o uuid \o <<"\"}">>

\* transportOk: whether mqttClient.publish accepts the message
publishJson(timestamp, uuid, value, transportOk) ==
    LET payload == buildPayload(timestamp, uuid, value)
    IN  IF ~mqttConnected THEN FALSE
        ELSE IF indexOf(payload, <<"error">>, 0) # -1 /\ startsWith(payload, <<"{">>)
             THEN FALSE
             ELSE transportOk

\* ------------------------------------------------------------------ ActuatorControlPoint
\* variant that renders the level as a digit
hardwareStateToPayloadDigit(hwState) == IF hwState = "HIGH" THEN <<"1">> ELSE <<"0">>

hardwareStateToPayload(hwState) == IF hwState = "HIGH" THEN ON ELSE OFF

\* variant that drives the pin to the opposite level
payloadToHardwareStateInverted(payload) ==
    IF equalsIgnoreCase(payload, ON) THEN "LOW"
    ELSE IF equalsIgnoreCase(payload, OFF) THEN "HIGH"
    ELSE "LOW"

\* payloadToHardwareState: on is HIGH, off is LOW, anything else LOW
payloadToHardwareState(payload) ==
    IF equalsIgnoreCase(payload, ON) THEN "HIGH"
    ELSE IF equalsIgnoreCase(payload, OFF) THEN "LOW"
    ELSE "LOW"

\* variant in which initialize() also drives the pin to the configured initial level
initializeWritesInitialState(a) == initialState[a]

\* the pin after initialize(): pinMode() only, no digitalWrite()
initialize(a) == "UNWRITTEN"

getInitialCommandPayload(a) == hardwareStateToPayload(initialState[a])

\* String::trim
RECURSIVE trim(_)
trim(s) ==
    IF s # <<>> /\ Head(s) = " " THEN trim(Tail(s))
    ELSE IF s # <<>> /\ s[Len(s)] = " " THEN trim(SubSeq(s, 1, Len(s) - 1))
    ELSE s

\* variant that trims the payload before comparing
executeDeviceCommandTrimmed(commandPayload) ==
    LET newState == payloadToHardwareState(trim(commandPayload))
    IN  IF equalsIgnoreCase(trim(commandPayload), ON)
           \/ equalsIgnoreCase(trim(commandPayload), OFF)
        THEN [ok |-> TRUE, level |-> newState]
        ELSE [ok |-> FALSE, level |-> newState]

\* executeDeviceCommand: whether the command is executed, and the level written
executeDeviceCommand(commandPayload) ==
    LET newState == payloadToHardwareState(commandPayload)
    IN  IF equalsIgnoreCase(commandPayload, ON) \/ equalsIgnoreCase(commandPayload, OFF)
        THEN [ok |-> TRUE, level |-> newState]
        ELSE [ok |-> FALSE, level |-> newState]

\* _lastRepublishCheckTimeMillis is set to 0 by the constructor; no caller sets it.
lastRepublishCheckTimeMillis == 0

isTimeToRepublish(a) ==
    USub(now, lastRepublishCheckTimeMillis) >= OUTPUT_REPUBLISH_FREQUENCY_MS

hasNoPublishTimeoutOccurred(a) ==
    IF MAX_TIME_NO_PUBLISH_MS = 0 THEN FALSE
    ELSE USub(now, lastPublishTimeMillis[a]) > MAX_TIME_NO_PUBLISH_MS

isLastStateSet(a) == lastSuccessfulPayload[a] # EmptyString


\* ------------------------------------------------------------------ history helpers
NoCall == [op |-> "none", arg |-> <<>>, result |-> <<>>]
Idle == [state |-> "none", writes |-> 0, sent |-> 0, ok |-> FALSE, coalesced |-> 0,
         since |-> 0, at |-> 0, inits |-> <<>>]
\* tick.since: millis() of the iteration that brought the FSM into its present state;
\* tick.at: millis() of the most recent iteration;
\* tick.inits: the initialize() calls of the iteration, in order, with their results
EnteredAt == IF currentState' # currentState THEN now ELSE tick.since
Ticked(st) == [state |-> st, writes |-> 0, sent |-> 0, ok |-> FALSE, coalesced |-> 0,
               since |-> EnteredAt, at |-> now, inits |-> <<>>]
Saturate(n) == IF n >= MaxCount THEN MaxCount ELSE n + 1

\* ------------------------------------------------------------------ loop() tail
\* After the switch every loop() iteration polls NTP once per update interval.
LoopTail(set) ==
    IF USub(now, lastNtpLoopUpdate) >= NTP_LOOP_UPDATE_INTERVAL
    THEN /\ timeSuccessfullySet' = NtpUpdate(set)
         /\ lastNtpLoopUpdate' = now
    ELSE /\ timeSuccessfullySet' = set
         /\ UNCHANGED lastNtpLoopUpdate

\* ------------------------------------------------------------------ environment
AdvanceTime ==
    /\ UNCHANGED events
    /\ now < MaxTime
    /\ now' = now + 1
    /\ UNCHANGED tick
    /\ UNCHANGED <<wifiConnected, mqttConnected, clockValid, epochTime, nvs, fsmVars, ntpVars,
                   publishQueue, c2Vars, c3Vars, callResult, routed, bootReports,
                   wifiBegins>>

WifiUp ==
    /\ UNCHANGED events
    /\ ~wifiConnected
    /\ currentState # "RESTART"
    /\ wifiConnected' = TRUE
    /\ UNCHANGED tick
    /\ UNCHANGED <<now, mqttConnected, clockValid, epochTime, nvs, fsmVars, ntpVars, publishQueue,
                   c2Vars, c3Vars, callResult, routed, bootReports, wifiBegins>>

WifiDown ==
    /\ wifiConnected
    /\ events < MaxEvents
    /\ events' = events + 1
    /\ wifiConnected' = FALSE
    /\ mqttConnected' \in {mqttConnected, FALSE}   \* the client may notice later
    /\ UNCHANGED tick
    /\ UNCHANGED <<now, clockValid, epochTime, nvs, fsmVars, ntpVars, publishQueue, c2Vars, c3Vars,
                   callResult, routed, bootReports, wifiBegins>>

MqttDown ==
    /\ mqttConnected
    /\ events < MaxEvents
    /\ events' = events + 1
    /\ mqttConnected' = FALSE
    /\ UNCHANGED tick
    /\ UNCHANGED <<now, wifiConnected, clockValid, epochTime, nvs, fsmVars, ntpVars, publishQueue,
                   c2Vars, c3Vars, callResult, routed, bootReports, wifiBegins>>

\* SNTP (started by configTime) sets the system clock while WiFi is up.
ClockSync ==
    /\ UNCHANGED events
    /\ wifiConnected
    /\ ~clockValid
    /\ clockValid' = TRUE
    /\ UNCHANGED tick
    /\ UNCHANGED <<now, wifiConnected, mqttConnected, epochTime, nvs, fsmVars, ntpVars, publishQueue,
                   c2Vars, c3Vars, callResult, routed, bootReports, wifiBegins>>

\* ------------------------------------------------------------------ Command Router
ValueKey == <<"\"", "v", "a", "l", "u", "e", "\"", ":", "\"">>
JsonCommand(value) == <<"{">> \o ValueKey \o value \o <<"\"", "}">>

\* payloads the broker delivers in the model
RawPayloads ==
    { JsonCommand(ON), JsonCommand(OFF), JsonCommand(<<"O", "N">>),
      JsonCommand(<<"o", "n", " ">>), ON, <<"{", "}">>,
      <<"{">> \o ValueKey \o <<"o", "n", "}">> }
RawTopics == {WriteTopic(a) : a \in Actuators} \cup {<<"write", "other">>}

\* variant that takes any value of the value field as a command
parseCommandAnyValue(payloadStr) ==
    IF ~startsWith(payloadStr, <<"{">>) \/ ~endsWith(payloadStr, <<"}">>) THEN <<>>
    ELSE LET valueKeyAt == indexOf(payloadStr, ValueKey, 0)
         IN  IF valueKeyAt = -1 THEN <<>>
             ELSE LET valueStart == valueKeyAt + 9
                      valueEnd == indexOf(payloadStr, <<"\"">>, valueStart)
                  IN  IF valueEnd = -1 THEN <<>>
                      ELSE <<substring(payloadStr, valueStart, valueEnd)>>

\* the command the callback extracts from a payload, <<>> when it drops the message
parseCommand(payloadStr) ==
    IF ~startsWith(payloadStr, <<"{">>) \/ ~endsWith(payloadStr, <<"}">>) THEN <<>>
    ELSE LET valueKeyAt == indexOf(payloadStr, ValueKey, 0)
         IN  IF valueKeyAt = -1 THEN <<>>
             ELSE LET valueStart == valueKeyAt + 9
                      valueEnd == indexOf(payloadStr, <<"\"">>, valueStart)
                  IN  IF valueEnd = -1 THEN <<>>
                      ELSE LET commandValue == substring(payloadStr, valueStart, valueEnd)
                           IN  IF commandValue # ON /\ commandValue # OFF
                               THEN <<>>
                               ELSE <<commandValue>>

\* variant in which a command that is already pending is kept (first wins)
routerPendingKeepsFirst(pending, target, commandValue) ==
    [a \in DOMAIN pending \cup {target} |->
        IF a \in DOMAIN pending THEN pending[a] ELSE commandValue]

\* variant that forgets the pending commands of the other actuators
routerPendingOnly(pending, target, commandValue) == [a \in {target} |-> commandValue]

\* latest wins: the pending entry is overwritten
routerPending(pending, target, commandValue) ==
    [a \in DOMAIN pending \cup {target} |->
        IF a = target THEN commandValue ELSE pending[a]]

\* whether the callback reaches its "latest wins" update; managed: whether
\* setCommandManagement has given the service its command structures
routerAccepts(managed, topic, payloadStr) ==
    managed /\ topic \in DOMAIN topicToActuatorMap /\ parseCommand(payloadStr) # <<>>

\* controller2's setup() calls setCommandManagement
C2_commandManagement == TRUE

instanceMqttCallback(managed, topic, payloadStr) ==
    LET parsed == parseCommand(payloadStr)
    IN  IF ~routerAccepts(managed, topic, payloadStr)
        THEN UNCHANGED <<cmdVars, lastAccepted, routed>>
        ELSE LET targetActuator == topicToActuatorMap[topic]
                 commandValue == parsed[1]
             IN  /\ pendingActuatorCommands' =
                        routerPending(pendingActuatorCommands, targetActuator, commandValue)
                 /\ IF targetActuator \notin actuatorsInProcessQueueSet
                    THEN /\ actuatorsToProcessQueue' =
                                Append(actuatorsToProcessQueue, targetActuator)
                         /\ actuatorsInProcessQueueSet' =
                                actuatorsInProcessQueueSet \cup {targetActuator}
                    ELSE UNCHANGED <<actuatorsToProcessQueue, actuatorsInProcessQueueSet>>
                 /\ lastAccepted' = [lastAccepted EXCEPT ![targetActuator] = commandValue]
                 /\ routed' = [routed EXCEPT ![targetActuator] = Saturate(@)]

\* mqttService.loop() delivers one inbound message
MqttCallback ==
    /\ mqttConnected
    /\ events < MaxEvents
    /\ \E topic \in RawTopics, payloadStr \in RawPayloads :
           /\ instanceMqttCallback(C2_commandManagement, topic, payloadStr)
           /\ events' = IF routerAccepts(C2_commandManagement, topic, payloadStr)
                        THEN events + 1 ELSE events
    /\ UNCHANGED tick
    /\ UNCHANGED <<envVars, nvs, fsmVars, ntpVars, publishQueue, actVars, c3Vars,
                   callResult, bootReports, wifiBegins>>


\* ------------------------------------------------------------------ publish queue
\* variant that drains the whole queue in one call
dequeueForPublishAll(queue) == <<>>

\* variant that puts the item back at the end of the queue for another attempt
dequeueForPublishRequeues(queue) == Tail(queue) \o <<Head(queue)>>

\* the queue after front() and pop() (SensorPublishQueue::dequeueForPublish on
\* controller3); the item handed to the transport is Head(queue)
dequeueForPublish(queue) == Tail(queue)

\* ------------------------------------------------------------------ controller2 loop()
\* case CONNECT_WIFI
C2_ConnectWifi ==
    /\ UNCHANGED events
    /\ currentState = "CONNECT_WIFI"
    /\ IF wifiConnected
       THEN /\ wifiAttempts' = 0
            /\ currentState' = "SYNC_NTP"
            /\ stateStartTime' = now
            /\ wifiBegins' = 0
            /\ UNCHANGED nvs
       ELSE IF wifiAttempts = 0 \/ USub(now, stateStartTime) > WIFI_ATTEMPT_TIMEOUT_MS
            THEN IF wifiAttempts >= MAX_WIFI_ATTEMPTS
                 THEN /\ nvs' = storeRestartReason(WIFI_TIMEOUT, timeSuccessfullySet)
                      /\ currentState' = "RESTART"
                      /\ UNCHANGED <<wifiAttempts, stateStartTime, wifiBegins>>
                 ELSE /\ wifiAttempts' = wifiAttempts + 1
                      /\ stateStartTime' = now        \* WiFi.begin()
                      /\ wifiBegins' = wifiBegins + 1
                      /\ UNCHANGED <<currentState, nvs>>
            ELSE UNCHANGED <<currentState, wifiAttempts, stateStartTime, wifiBegins, nvs>>
    /\ LoopTail(timeSuccessfullySet)
    /\ tick' = Ticked("CONNECT_WIFI")
    /\ UNCHANGED <<envVars, ntpAttempts, publishQueue, c2Vars, c3Vars, callResult,
                   routed, bootReports>>

\* case SYNC_NTP
C2_SyncNtp ==
    /\ UNCHANGED events
    /\ currentState = "SYNC_NTP"
    /\ LET first == ntpAttempts = 0
           attempts == IF first THEN 1 ELSE ntpAttempts
           started == IF first THEN now ELSE stateStartTime
           set == NtpUpdate(timeSuccessfullySet)
       IN  /\ IF set
              THEN /\ ntpAttempts' = 0
                   /\ currentState' = "CONNECT_MQTT"
                   /\ stateStartTime' = now
                   /\ UNCHANGED nvs
              ELSE IF USub(now, started) > NTP_ATTEMPT_TIMEOUT_MS
                   THEN IF attempts >= MAX_NTP_ATTEMPTS
                        THEN /\ nvs' = storeRestartReason(NTP_TIMEOUT, set)
                             /\ currentState' = "RESTART"
                             /\ ntpAttempts' = attempts
                             /\ stateStartTime' = started
                        ELSE /\ ntpAttempts' = attempts + 1
                             /\ stateStartTime' = now
                             /\ UNCHANGED <<currentState, nvs>>
                   ELSE /\ ntpAttempts' = attempts
                        /\ stateStartTime' = started
                        /\ UNCHANGED <<currentState, nvs>>
           /\ LoopTail(set)
    /\ tick' = Ticked("SYNC_NTP")
    /\ UNCHANGED <<envVars, wifiAttempts, publishQueue, c2Vars, c3Vars, callResult,
                   routed, bootReports, wifiBegins>>

\* connectBroker(): TRUE at once when connected; otherwise one connection attempt,
\* which can succeed only over WiFi
ConnectOutcomes == IF mqttConnected THEN {TRUE}
                   ELSE IF wifiConnected THEN {TRUE, FALSE} ELSE {FALSE}

\* case CONNECT_MQTT
C2_ConnectMqtt ==
    /\ UNCHANGED events
    /\ currentState = "CONNECT_MQTT"
    /\ \E connected \in ConnectOutcomes :
        /\ mqttConnected' = connected
        /\ IF connected
           THEN /\ currentState' = "PUBLISH_BOOT_STATUS"
                /\ stateStartTime' = now
                /\ UNCHANGED nvs
           ELSE IF USub(now, stateStartTime) > MQTT_CONNECT_TIMEOUT_MS
                THEN /\ nvs' = storeRestartReason(MQTT_TIMEOUT, timeSuccessfullySet)
                     /\ currentState' = "RESTART"
                     /\ UNCHANGED stateStartTime
                ELSE UNCHANGED <<currentState, stateStartTime, nvs>>
    /\ LoopTail(timeSuccessfullySet)
    /\ tick' = Ticked("CONNECT_MQTT")
    /\ UNCHANGED <<now, wifiConnected, clockValid, epochTime, wifiAttempts, ntpAttempts, publishQueue,
                   c2Vars, c3Vars, callResult, routed, bootReports, wifiBegins>>

\* the boot status item of case PUBLISH_BOOT_STATUS
bootStatusItem(n, set) ==
    IF hasStoredRestartReason(n)
    THEN createPublishData(n, set, TOPIC_LastRestartReason_DATA, UUID_LastRestartReason_DATA)
    ELSE PublishData(TOPIC_LastRestartReason_DATA, UUID_LastRestartReason_DATA,
                     restartReasonToString(UNKNOWN_RESET), getFormattedISO8601Time(set),
                     nullptr, nullptr)

\* storage after case PUBLISH_BOOT_STATUS
bootStatusStorage(n) == IF hasStoredRestartReason(n) THEN clearStoredRestartReason(n) ELSE n

\* case PUBLISH_BOOT_STATUS
C2_PublishBootStatus ==
    /\ UNCHANGED events
    /\ currentState = "PUBLISH_BOOT_STATUS"
    /\ publishQueue' = Append(publishQueue, bootStatusItem(nvs, timeSuccessfullySet))
    /\ nvs' = bootStatusStorage(nvs)
    /\ currentState' = "PROCESS_COMMANDS"
    /\ bootReports' = Saturate(bootReports)
    /\ LoopTail(timeSuccessfullySet)
    /\ tick' = Ticked("PUBLISH_BOOT_STATUS")
    /\ UNCHANGED <<envVars, stateStartTime, wifiAttempts, ntpAttempts, c2Vars, c3Vars,
                   callResult, routed, wifiBegins>>

\* g_pendingActuatorCommands[a]: operator[] gives an empty String for a missing key
pendingOf(pending, a) == IF a \in DOMAIN pending THEN pending[a] ELSE EmptyString

\* variant that leaves the entry in the map
eraseKeyKeeps(pending, a) == pending

eraseKey(pending, a) == [b \in DOMAIN pending \ {a} |-> pending[b]]

\* variant that puts the readback in front of the items already waiting
pushReadbackFront(queue, readback) == <<readback>> \o queue

\* g_publishQueue.push(readback): the readback goes behind the items already waiting
pushReadback(queue, readback) == Append(queue, readback)

\* case PROCESS_COMMANDS
C2_ProcessCommands ==
    /\ UNCHANGED events
    /\ currentState = "PROCESS_COMMANDS"
    /\ IF actuatorsToProcessQueue # <<>>
       THEN LET actuatorToProcess == Head(actuatorsToProcessQueue)
                latestPayload == pendingOf(pendingActuatorCommands, actuatorToProcess)
                result == executeDeviceCommand(latestPayload)
            IN  /\ actuatorsToProcessQueue' = Tail(actuatorsToProcessQueue)
                /\ actuatorsInProcessQueueSet' =
                       actuatorsInProcessQueueSet \ {actuatorToProcess}
                /\ IF result.ok
                   THEN /\ pin' = [pin EXCEPT ![actuatorToProcess] = result.level]
                        /\ lastSuccessfulPayload' =
                               [lastSuccessfulPayload EXCEPT ![actuatorToProcess] = latestPayload]
                        /\ publishQueue' = pushReadback(publishQueue,
                               PublishData(ReadbackTopic(actuatorToProcess),
                                           ReadbackUUID(actuatorToProcess), latestPayload,
                                           getFormattedISO8601Time(timeSuccessfullySet),
                                           actuatorToProcess, nullptr))
                   ELSE UNCHANGED <<pin, lastSuccessfulPayload, publishQueue>>
                /\ pendingActuatorCommands' =
                       eraseKey(pendingActuatorCommands, actuatorToProcess)
                /\ currentState' = "PUBLISH_DATA"
                /\ routed' = [routed EXCEPT ![actuatorToProcess] = 0]
                /\ tick' = [state |-> "PROCESS_COMMANDS",
                            writes |-> IF result.ok THEN 1 ELSE 0, sent |-> 0,
                            ok |-> result.ok, coalesced |-> routed[actuatorToProcess],
                            since |-> EnteredAt, at |-> now, inits |-> <<>>]
       ELSE /\ currentState' = "WAIT"
            /\ tick' = Ticked("PROCESS_COMMANDS")
            /\ UNCHANGED <<cmdVars, pin, lastSuccessfulPayload, publishQueue, routed>>
    /\ LoopTail(timeSuccessfullySet)
    /\ UNCHANGED <<envVars, nvs, stateStartTime, wifiAttempts, ntpAttempts,
                   lastPublishTimeMillis, lastAccepted, c3Vars, callResult, bootReports,
                   wifiBegins>>


\* case PUBLISH_DATA
C2_PublishData ==
    /\ UNCHANGED events
    /\ currentState = "PUBLISH_DATA"
    /\ IF ~mqttConnected
       THEN /\ currentState' = "CONNECT_MQTT"
            /\ stateStartTime' = now
            /\ tick' = Ticked("PUBLISH_DATA")
            /\ UNCHANGED <<publishQueue, lastPublishTimeMillis>>
       ELSE IF publishQueue # <<>>
            THEN \E transportOk \in BOOLEAN :
                   LET item == Head(publishQueue)
                       published == publishJson(item.timestampIsoUtc, item.uuid,
                                                item.serializedValue, transportOk)
                   IN  /\ publishQueue' = dequeueForPublish(publishQueue)
                       /\ lastPublishTimeMillis' =
                              IF published /\ item.sourceActuator # nullptr
                              THEN [lastPublishTimeMillis EXCEPT ![item.sourceActuator] = now]
                              ELSE lastPublishTimeMillis
                       /\ currentState' = IF dequeueForPublish(publishQueue) # <<>>
                                          THEN "PUBLISH_DATA" ELSE "WAIT"
                       /\ tick' = [state |-> "PUBLISH_DATA", writes |-> 0, sent |-> 1,
                                   ok |-> published, coalesced |-> 0, since |-> EnteredAt, at |-> now, inits |-> <<>>]
                       /\ UNCHANGED stateStartTime
            ELSE /\ currentState' = "WAIT"
                 /\ tick' = Ticked("PUBLISH_DATA")
                 /\ UNCHANGED <<publishQueue, lastPublishTimeMillis, stateStartTime>>
    /\ LoopTail(timeSuccessfullySet)
    /\ UNCHANGED <<envVars, nvs, wifiAttempts, ntpAttempts, cmdVars, pin,
                   lastSuccessfulPayload, lastAccepted, c3Vars, callResult, routed,
                   bootReports, wifiBegins>>

\* checkPeriodicRepublishing(), from actuator i on: whether it hit the no-publish
\* timeout (and returned at once), and the publish queue it leaves
RECURSIVE checkPeriodicRepublishing(_, _)
checkPeriodicRepublishing(i, queue) ==
    IF i > Len(ActuatorPoints) THEN [timeout |-> FALSE, queue |-> queue]
    ELSE LET actuator == ActuatorPoints[i]
         IN  IF hasNoPublishTimeoutOccurred(actuator)
             THEN [timeout |-> TRUE, queue |-> queue]
             ELSE checkPeriodicRepublishing(i + 1,
                    IF isTimeToRepublish(actuator) /\ isLastStateSet(actuator)
                    THEN Append(queue,
                           PublishData(ReadbackTopic(actuator), ReadbackUUID(actuator),
                                       lastSuccessfulPayload[actuator],
                                       getFormattedISO8601Time(timeSuccessfullySet),
                                       actuator, nullptr))
                    ELSE queue)

\* variant in which the publish queue is served before pending commands
C2_waitBranchPublishFirst ==
    IF ~wifiConnected THEN "CONNECT_WIFI"
    ELSE IF ~mqttConnected THEN "CONNECT_MQTT"
    ELSE IF publishQueue # <<>> THEN "PUBLISH_DATA"
    ELSE IF actuatorsToProcessQueue # <<>> THEN "PROCESS_COMMANDS"
    ELSE "PERIODIC"

\* the branch case WAIT takes
C2_waitBranch ==
    IF ~wifiConnected THEN "CONNECT_WIFI"
    ELSE IF ~mqttConnected THEN "CONNECT_MQTT"
    ELSE IF actuatorsToProcessQueue # <<>> THEN "PROCESS_COMMANDS"
    ELSE IF publishQueue # <<>> THEN "PUBLISH_DATA"
    ELSE "PERIODIC"

\* currentState after the last branch of case WAIT: checkPeriodicRepublishing() may
\* have set RESTART, and the assignment that follows the call sets WAIT
C2_stateAfterPeriodic(timeout) == "WAIT"

\* case WAIT
C2_Wait ==
    /\ UNCHANGED events
    /\ currentState = "WAIT"
    /\ LET branch == C2_waitBranch
       IN  IF branch # "PERIODIC"
           THEN /\ currentState' = branch
                /\ UNCHANGED <<nvs, publishQueue>>
           ELSE LET check == checkPeriodicRepublishing(1, publishQueue)
                IN  /\ nvs' = IF check.timeout
                              THEN storeRestartReason(NOPUBLISH_TIMEOUT, timeSuccessfullySet)
                              ELSE nvs
                    /\ publishQueue' = check.queue
                    /\ currentState' = C2_stateAfterPeriodic(check.timeout)
    /\ LoopTail(timeSuccessfullySet)
    /\ tick' = Ticked("WAIT")
    /\ UNCHANGED <<envVars, stateStartTime, wifiAttempts, ntpAttempts, c2Vars, c3Vars,
                   callResult, routed, bootReports, wifiBegins>>

\* state of the controller2 globals when setup() returns
C2_initialPending == [a \in Actuators |-> getInitialCommandPayload(a)]
NoSensors == [queue |-> <<>>, tracking |-> {}]

\* case RESTART: ESP.restart() reboots the process; only Preferences survive
C2_Restart ==
    /\ currentState = "RESTART"
    /\ now' = 0
    /\ wifiConnected' = FALSE
    /\ mqttConnected' = FALSE
    /\ clockValid' = FALSE
    /\ UNCHANGED epochTime
    /\ currentState' = "CONNECT_WIFI"
    /\ stateStartTime' = 0
    /\ wifiAttempts' = 0
    /\ ntpAttempts' = 0
    /\ timeSuccessfullySet' = FALSE
    /\ lastNtpLoopUpdate' = 0
    /\ publishQueue' = <<>>
    /\ pendingActuatorCommands' = C2_initialPending
    /\ actuatorsToProcessQueue' = ActuatorPoints
    /\ actuatorsInProcessQueueSet' = Actuators
    /\ pin' = [a \in Actuators |-> initialize(a)]
    /\ lastSuccessfulPayload' = [a \in Actuators |-> EmptyString]
    /\ lastPublishTimeMillis' = [a \in Actuators |-> 0]
    /\ lastAccepted' = C2_initialPending
    /\ routed' = [a \in Actuators |-> 0]
    /\ bootReports' = 0
    /\ wifiBegins' = 0
    /\ events' = 0
    /\ tick' = [Ticked("RESTART") EXCEPT !.since = 0, !.at = 0]
    /\ UNCHANGED <<nvs, c3Vars, callResult>>

\* controller2 after setup() on a device with empty Preferences
Init2 ==
    /\ now = 0
    /\ wifiConnected = FALSE
    /\ mqttConnected = FALSE
    /\ clockValid = FALSE
    /\ epochTime = 0
    /\ nvs = NoRecord
    /\ currentState = "CONNECT_WIFI"
    /\ stateStartTime = 0
    /\ wifiAttempts = 0
    /\ ntpAttempts = 0
    /\ timeSuccessfullySet = FALSE
    /\ lastNtpLoopUpdate = 0
    /\ publishQueue = <<>>
    /\ pendingActuatorCommands = C2_initialPending
    /\ actuatorsToProcessQueue = ActuatorPoints
    /\ actuatorsInProcessQueueSet = Actuators
    /\ pin = [a \in Actuators |-> initialize(a)]
    /\ lastSuccessfulPayload = [a \in Actuators |-> EmptyString]
    /\ lastPublishTimeMillis = [a \in Actuators |-> 0]
    /\ sensorsToReadQueue = NoSensors
    /\ sensorsWithPendingData = {}
    /\ lastReadAttemptMs = <<>>
    /\ lastPublishTimeMs = <<>>
    /\ hasValidReading = <<>>
    /\ bootStatusPublished = FALSE
    /\ lastPeriodicCheck = 0
    /\ callResult = NoCall
    /\ tick = Idle
    /\ lastAccepted = C2_initialPending
    /\ routed = [a \in Actuators |-> 0]
    /\ bootReports = 0
    /\ wifiBegins = 0
    /\ events = 0

Next2 ==
    \/ AdvanceTime
    \/ WifiUp
    \/ WifiDown
    \/ MqttDown
    \/ ClockSync
    \/ MqttCallback
    \/ C2_ConnectWifi
    \/ C2_SyncNtp
    \/ C2_ConnectMqtt
    \/ C2_PublishBootStatus
    \/ C2_ProcessCommands
    \/ C2_PublishData
    \/ C2_Wait
    \/ C2_Restart

Spec2 == Init2 /\ [][Next2]_vars

\* ------------------------------------------------------------------ controller2 properties
Last(q) == q[Len(q)]
Range(q) == {q[i] : i \in 1..Len(q)}

\* C1 (latest wins): the PROCESS_COMMANDS step that dequeues an actuator for which the
\* router accepted one or more commands since it was last processed writes the hardware
\* exactly once, with the level of the last accepted payload, and appends exactly one
\* readback item, which carries that payload.
C1_LatestWins ==
    [][(C2_ProcessCommands /\ actuatorsToProcessQueue # <<>>
            /\ routed[Head(actuatorsToProcessQueue)] >= 1)
        => LET a == Head(actuatorsToProcessQueue)
           IN  /\ tick'.writes = 1
               /\ pin'[a] = payloadToHardwareState(lastAccepted[a])
               /\ lastSuccessfulPayload'[a] = lastAccepted[a]
               /\ Len(publishQueue') = Len(publishQueue) + 1
               /\ SubSeq(publishQueue', 1, Len(publishQueue)) = publishQueue
               /\ Last(publishQueue').topic = ReadbackTopic(a)
               /\ Last(publishQueue').serializedValue = lastAccepted[a]]_vars

\* a PROCESS_COMMANDS step has just applied "on" to a1 (initial level LOW) after the
\* router accepted two or more commands for it, the pending one overwritten
C1_Witness ==
    /\ tick.state = "PROCESS_COMMANDS"
    /\ tick.coalesced >= 2
    /\ tick.writes = 1
    /\ pin["a1"] = "HIGH"
    /\ publishQueue # <<>>
    /\ Last(publishQueue).serializedValue = ON
    /\ Last(publishQueue).sourceActuator = "a1"

\* C2 (dead-man's switch): a WAIT tick that runs checkPeriodicRepublishing while an
\* actuator has had no confirmed publish for longer than MAX_TIME_NO_PUBLISH_MS stores
\* NOPUBLISH_TIMEOUT and ends in RESTART.
C2_DeadMansSwitch ==
    [][(C2_Wait /\ C2_waitBranch = "PERIODIC"
            /\ \E a \in Actuators : hasNoPublishTimeoutOccurred(a))
        => /\ nvs'.reason = <<NOPUBLISH_TIMEOUT>>
           /\ currentState' = "RESTART"]_vars

\* C7 (one boot report per boot cycle): since process start at most one "last restart
\* reason" item has been enqueued, whatever reconnects happened.
C7_OneBootReport == bootReports <= 1

\* whether queue q is an initial part of queue r
IsPrefix(q, r) == Len(q) <= Len(r) /\ SubSeq(r, 1, Len(q)) = q
\* whether queue r is queue q without its front item
IsDequeue(q, r) == q # <<>> /\ r = Tail(q)

\* C12 (one command and one publish per iteration): no loop() iteration executes more
\* than one actuator command (it takes at most one actuator off the work queue, removes
\* at most one pending entry and changes the pin and the last successful payload of at
\* most one actuator) and none takes more than one item off the publish queue.
C12_OnePerTick ==
    [][currentState # "RESTART"
        => /\ tick'.writes <= 1 /\ tick'.sent <= 1
           /\ \/ IsDequeue(actuatorsToProcessQueue, actuatorsToProcessQueue')
              \/ IsPrefix(actuatorsToProcessQueue, actuatorsToProcessQueue')
           /\ Cardinality(DOMAIN pendingActuatorCommands
                              \ DOMAIN pendingActuatorCommands') <= 1
           /\ Cardinality({a \in DOMAIN pin :
                               \/ pin'[a] # pin[a]
                               \/ lastSuccessfulPayload'[a] # lastSuccessfulPayload[a]}) <= 1
           /\ \/ IsDequeue(publishQueue, publishQueue')
              \/ IsPrefix(publishQueue, publishQueue')]_vars

\* a PUBLISH_DATA iteration has just sent one item while further items and a further
\* actuator command were waiting
C12_Witness ==
    /\ tick.state = "PUBLISH_DATA"
    /\ tick.sent = 1
    /\ publishQueue # <<>>
    /\ actuatorsToProcessQueue # <<>>

\* C10 (WAIT priority): a WAIT tick goes to the reconnect state when WiFi or the broker
\* is down, else to PROCESS_COMMANDS when a command is pending, else to PUBLISH_DATA when
\* the publish queue holds an item; the periodic check (the only branch that stays in
\* WAIT, enqueues or stores) runs only with both queues empty and both links up.
C10_WaitPriority ==
    [][C2_Wait
        => /\ ~wifiConnected => currentState' = "CONNECT_WIFI"
           /\ wifiConnected /\ ~mqttConnected => currentState' = "CONNECT_MQTT"
           /\ wifiConnected /\ mqttConnected /\ actuatorsToProcessQueue # <<>>
                  => currentState' = "PROCESS_COMMANDS"
           /\ wifiConnected /\ mqttConnected /\ actuatorsToProcessQueue = <<>>
                  /\ publishQueue # <<>> => currentState' = "PUBLISH_DATA"
           /\ currentState' = "PUBLISH_DATA" => actuatorsToProcessQueue = <<>>
           /\ (currentState' = "WAIT" \/ publishQueue' # publishQueue \/ nvs' # nvs)
                  => /\ wifiConnected /\ mqttConnected
                     /\ actuatorsToProcessQueue = <<>> /\ publishQueue = <<>>]_vars

\* a WAIT tick has just chosen PROCESS_COMMANDS while the publish queue held items
C10_Witness ==
    /\ tick.state = "WAIT"
    /\ currentState = "PROCESS_COMMANDS"
    /\ actuatorsToProcessQueue # <<>>
    /\ publishQueue # <<>>
    /\ wifiConnected /\ mqttConnected

\* ------------------------------------------------------------------ controller2 on a stable network
\* one iteration of loop(): the case of the switch that currentState selects
C2_Loop ==
    \/ C2_ConnectWifi
    \/ C2_SyncNtp
    \/ C2_ConnectMqtt
    \/ C2_PublishBootStatus
    \/ C2_ProcessCommands
    \/ C2_PublishData
    \/ C2_Wait
    \/ C2_Restart

\* WiFi and the broker, once connected, stay connected; commands keep arriving until the
\* budget of the boot cycle is used up
NextStable2 ==
    \/ AdvanceTime
    \/ WifiUp
    \/ ClockSync
    \/ MqttCallback
    \/ C2_ConnectWifi
    \/ C2_SyncNtp
    \/ C2_ConnectMqtt
    \/ C2_PublishBootStatus
    \/ C2_ProcessCommands
    \/ C2_PublishData
    \/ C2_Wait
    \/ C2_Restart

\* the Arduino core calls loop() again and again
SpecStable2 == Init2 /\ [][NextStable2]_vars /\ WF_vars(C2_Loop)

\* every actuator shows the last accepted command and nothing is left to process
C13_Applied ==
    /\ \A a \in Actuators : pin[a] = payloadToHardwareState(lastAccepted[a])
    /\ DOMAIN pendingActuatorCommands = {}
    /\ actuatorsToProcessQueue = <<>>

\* C13 (no accepted command is lost): when WiFi and the broker stay connected from some
\* point on (commands stop arriving once the budget is used up), then from some point on
\* every actuator's pin shows the last command accepted for it, and the pending map and
\* the work queue are empty.
C13_NoCommandLost == <>[](wifiConnected /\ mqttConnected) => <>[]C13_Applied

\* both router commands of the boot cycle were accepted, the last one switching a1
\* (initial level LOW) on, and everything has been applied
C13_Witness ==
    /\ C13_Applied
    /\ events = MaxEvents
    /\ lastAccepted["a1"] = ON
    /\ pin["a1"] = "HIGH"
    /\ wifiConnected /\ mqttConnected
    /\ currentState = "WAIT"

\* ------------------------------------------------------------------ UniqueQueue
\* a UniqueQueue is [queue, tracking]: _queue and _tracking
contains(uq, item) == item \in uq.tracking

tryEnqueue(uq, item) ==
    IF contains(uq, item) THEN uq
    ELSE [queue |-> Append(uq.queue, item), tracking |-> uq.tracking \cup {item}]

\* variant that forgets to erase the dequeued item from the tracking set
dequeueKeepsTracking(uq) == [queue |-> Tail(uq.queue), tracking |-> uq.tracking]

\* the queue after dequeue(); the item returned is Head(uq.queue)
dequeue(uq) == [queue |-> Tail(uq.queue), tracking |-> uq.tracking \ {Head(uq.queue)}]

clear(uq) == [queue |-> <<>>, tracking |-> {}]

\* ------------------------------------------------------------------ SensorPublishQueue
\* the publish queue is [queue, pending]: _queue and _sensorsWithPendingData
queueForPublish(pq, data) ==
    [queue |-> Append(pq.queue, data),
     pending |-> IF data.sourceSensor # nullptr
                 THEN pq.pending \cup {data.sourceSensor} ELSE pq.pending]

\* variant that leaves the pending set as it is
markPublishCompleteKeeps(pending, item) == pending

markPublishComplete(pending, item) ==
    IF item.sourceSensor # nullptr THEN pending \ {item.sourceSensor} ELSE pending

hasPendingData(pending, sensor) == sensor \in pending

\* ------------------------------------------------------------------ SensorPoint
\* controller3: g_sensorPoints, one SCD4x sensor with three readings per read
SensorPoints == <<"scd4x">>
Sensors == {SensorPoints[i] : i \in 1..Len(SensorPoints)}

\* controller1: g_sensorPoints as built from the sensor lists of its configuration
C1_SensorPoints == <<"i2c0", "i2c1", "i2c2">>
C1_Sensors == {C1_SensorPoints[i] : i \in 1..Len(C1_SensorPoints)}

\* variant of the SETUP_HW loop that goes on to the remaining sensors after a failure
RECURSIVE initializeSensorsAll(_, _)
initializeSensorsAll(points, working) ==
    IF points = <<>> THEN [ok |-> TRUE, calls |-> <<>>]
    ELSE LET rest == initializeSensorsAll(Tail(points), working)
         IN  [ok |-> Head(points) \in working /\ rest.ok,
              calls |-> <<[sensor |-> Head(points), ok |-> Head(points) \in working]>>
                        \o rest.calls]

\* the loop of case SETUP_HW over g_sensorPoints: initialize() is called sensor by sensor
\* and the first failure ends it; working are the sensors whose initialize() succeeds
RECURSIVE initializeSensors(_, _)
initializeSensors(points, working) ==
    IF points = <<>> THEN [ok |-> TRUE, calls |-> <<>>]
    ELSE IF Head(points) \notin working
         THEN [ok |-> FALSE, calls |-> <<[sensor |-> Head(points), ok |-> FALSE]>>]
         ELSE LET rest == initializeSensors(Tail(points), working)
              IN  [ok |-> rest.ok,
                   calls |-> <<[sensor |-> Head(points), ok |-> TRUE]>> \o rest.calls]
ReadingKinds == <<"co2", "temperature", "humidity">>

\* variant without the retry gate once the publish interval has elapsed
needToReadNoRetryGate(sensor, currentTimeMs) ==
    LET timeSinceLastPublish == USub(currentTimeMs, lastPublishTimeMs[sensor])
        safeToRetryRead == USub(currentTimeMs, lastReadAttemptMs[sensor]) >= timeNeededReadMs
    IN  IF timeSinceLastPublish >= publishIntervalMs THEN TRUE
        ELSE LET timeUntilNextPublish == publishIntervalMs - timeSinceLastPublish
                 closeToPublishTime ==
                     timeUntilNextPublish <=
                         UAdd(UAdd(timeNeededReadMs, mainLoopDelayMs),
                              SENSOR_PUBLISH_FUDGE_FACTOR)
             IN  closeToPublishTime /\ safeToRetryRead

\* variant computed with signed differences that do not wrap
needToReadSigned(sensor, currentTimeMs) ==
    LET timeSinceLastPublish == currentTimeMs - lastPublishTimeMs[sensor]
        safeToRetryRead == currentTimeMs - lastReadAttemptMs[sensor] >= timeNeededReadMs
    IN  IF timeSinceLastPublish >= publishIntervalMs THEN safeToRetryRead
        ELSE LET timeUntilNextPublish == publishIntervalMs - timeSinceLastPublish
                 closeToPublishTime ==
                     timeUntilNextPublish <=
                         timeNeededReadMs + mainLoopDelayMs + SENSOR_PUBLISH_FUDGE_FACTOR
             IN  closeToPublishTime /\ safeToRetryRead

\* SensorPoint::needToRead
needToRead(sensor, currentTimeMs) ==
    LET timeSinceLastPublish == USub(currentTimeMs, lastPublishTimeMs[sensor])
        safeToRetryRead == USub(currentTimeMs, lastReadAttemptMs[sensor]) >= timeNeededReadMs
    IN  IF timeSinceLastPublish >= publishIntervalMs THEN safeToRetryRead
        ELSE LET timeUntilNextPublish == publishIntervalMs - timeSinceLastPublish
                 closeToPublishTime ==
                     timeUntilNextPublish <=
                         UAdd(UAdd(timeNeededReadMs, mainLoopDelayMs),
                              SENSOR_PUBLISH_FUDGE_FACTOR)
             IN  closeToPublishTime /\ safeToRetryRead

\* variant that hands out the stored readings whether or not the last read succeeded
RECURSIVE getAllReadingsStale(_, _, _, _)
getAllReadingsStale(sensor, valid, timestamp, k) ==
    IF k > Len(ReadingKinds) THEN <<>>
    ELSE <<PublishData(<<"data", sensor, ReadingKinds[k]>>, <<"uuid", sensor, ReadingKinds[k]>>,
                       <<"reading">>, timestamp, nullptr, sensor)>>
         \o getAllReadingsStale(sensor, valid, timestamp, k + 1)

\* SCD4xSensorPoint::getAllReadings after a read at the given timestamp
RECURSIVE getAllReadings(_, _, _, _)
getAllReadings(sensor, valid, timestamp, k) ==
    IF ~valid \/ k > Len(ReadingKinds) THEN <<>>
    ELSE <<PublishData(<<"data", sensor, ReadingKinds[k]>>, <<"uuid", sensor, ReadingKinds[k]>>,
                       <<"reading">>, timestamp, nullptr, sensor)>>
         \o getAllReadings(sensor, valid, timestamp, k + 1)

RECURSIVE queueAllForPublish(_, _)
queueAllForPublish(pq, items) ==
    IF items = <<>> THEN pq
    ELSE queueAllForPublish(queueForPublish(pq, Head(items)), Tail(items))

\* checkSensorsNeedingRead(), from sensor i on: the sensors-to-read queue it leaves
RECURSIVE checkSensorsNeedingRead(_, _)
checkSensorsNeedingRead(i, uq) ==
    IF i > Len(SensorPoints) THEN uq
    ELSE LET sensor == SensorPoints[i]
         IN  checkSensorsNeedingRead(i + 1,
                IF ~hasPendingData(sensorsWithPendingData, sensor) /\ needToRead(sensor, now)
                THEN tryEnqueue(uq, sensor) ELSE uq)

\* ------------------------------------------------------------------ FsmUtils
\* variant that never reports a timeout
checkTimeoutNever(startTime, timeoutMs) == FALSE

checkTimeout(startTime, timeoutMs) == USub(now, startTime) > timeoutMs

\* the counter after attempts++ and whether the maximum is reached
checkAndIncrementRetries(attempts, maxAttempts) ==
    [attempts |-> attempts + 1, exceeded |-> attempts + 1 >= maxAttempts]

\* variant that leaves the counter as it is
resetRetriesKeeps(attempts) == attempts

resetRetries(attempts) == 0

\* variant that records the reason and goes on to WAIT
handleRestartToWait(reason, set) ==
    [nvs |-> storeRestartReason(reason, set), state |-> "WAIT"]

\* variant that enters RESTART without writing the reason
handleRestartWithoutStore(reason, set) == [nvs |-> nvs, state |-> "RESTART"]

\* storage and FSM state after handleRestartWithReason
handleRestartWithReason(reason, set) ==
    [nvs |-> storeRestartReason(reason, set), state |-> "RESTART"]

\* ------------------------------------------------------------------ controller3 loop()
\* every iteration starts with checkSensorsNeedingRead()
C3_queueAtSwitch == checkSensorsNeedingRead(1, sensorsToReadQueue)

c3Frame == <<c2Vars, callResult, routed, events>>

\* case SETUP_HW; a failed initialize() returns from loop() before its tail
C3_SetupHw ==
    /\ currentState = "SETUP_HW"
    /\ sensorsToReadQueue' = C3_queueAtSwitch
    /\ \E working \in SUBSET Sensors :
         LET initialized == initializeSensors(SensorPoints, working)
         IN  /\ IF initialized.ok
                THEN /\ currentState' = "CONNECT_WIFI"
                     /\ UNCHANGED nvs
                     /\ LoopTail(timeSuccessfullySet)
                ELSE LET r == handleRestartWithReason(SENSOR_INIT_FAILED,
                                                      timeSuccessfullySet)
                     IN  /\ nvs' = r.nvs
                         /\ currentState' = r.state
                         /\ UNCHANGED ntpVars
             /\ tick' = [Ticked("SETUP_HW") EXCEPT !.inits = initialized.calls]
    /\ UNCHANGED <<envVars, stateStartTime, wifiAttempts, ntpAttempts, publishQueue,
                   sensorsWithPendingData, lastReadAttemptMs, lastPublishTimeMs,
                   hasValidReading, bootStatusPublished, lastPeriodicCheck,
                   bootReports, wifiBegins, c3Frame>>

\* case CONNECT_WIFI
C3_ConnectWifi ==
    /\ currentState = "CONNECT_WIFI"
    /\ sensorsToReadQueue' = C3_queueAtSwitch
    /\ IF wifiConnected
       THEN /\ wifiAttempts' = resetRetries(wifiAttempts)
            /\ currentState' = "SYNC_NTP"
            /\ stateStartTime' = now
            /\ wifiBegins' = 0
            /\ UNCHANGED nvs
       ELSE IF wifiAttempts = 0 \/ checkTimeout(stateStartTime, WIFI_ATTEMPT_TIMEOUT_MS)
            THEN LET retry == checkAndIncrementRetries(wifiAttempts, MAX_WIFI_ATTEMPTS)
                 IN  /\ wifiAttempts' = retry.attempts
                     /\ IF retry.exceeded
                        THEN LET r == handleRestartWithReason(WIFI_TIMEOUT,
                                                              timeSuccessfullySet)
                             IN  /\ nvs' = r.nvs
                                 /\ currentState' = r.state
                                 /\ UNCHANGED <<stateStartTime, wifiBegins>>
                        ELSE /\ stateStartTime' = now        \* WiFi.begin()
                             /\ wifiBegins' = wifiBegins + 1
                             /\ UNCHANGED <<currentState, nvs>>
            ELSE UNCHANGED <<currentState, wifiAttempts, stateStartTime, wifiBegins, nvs>>
    /\ LoopTail(timeSuccessfullySet)
    /\ tick' = Ticked("CONNECT_WIFI")
    /\ UNCHANGED <<envVars, ntpAttempts, publishQueue, sensorsWithPendingData,
                   lastReadAttemptMs, lastPublishTimeMs, hasValidReading,
                   bootStatusPublished, lastPeriodicCheck, bootReports, c3Frame>>

\* case SYNC_NTP
C3_SyncNtp ==
    /\ currentState = "SYNC_NTP"
    /\ sensorsToReadQueue' = C3_queueAtSwitch
    /\ LET first == ntpAttempts = 0
           attempts == IF first THEN 1 ELSE ntpAttempts
           started == IF first THEN now ELSE stateStartTime
           set == NtpUpdate(timeSuccessfullySet)
       IN  /\ IF set
              THEN /\ ntpAttempts' = resetRetries(attempts)
                   /\ currentState' = "CONNECT_MQTT"
                   /\ stateStartTime' = now
                   /\ UNCHANGED nvs
              ELSE IF checkTimeout(started, NTP_ATTEMPT_TIMEOUT_MS)
                   THEN LET retry == checkAndIncrementRetries(attempts, MAX_NTP_ATTEMPTS)
                        IN  /\ ntpAttempts' = retry.attempts
                            /\ IF retry.exceeded
                               THEN LET r == handleRestartWithReason(NTP_TIMEOUT, set)
                                    IN  /\ nvs' = r.nvs
                                        /\ currentState' = r.state
                                        /\ stateStartTime' = started
                               ELSE /\ stateStartTime' = now
                                    /\ UNCHANGED <<currentState, nvs>>
                   ELSE /\ ntpAttempts' = attempts
                        /\ stateStartTime' = started
                        /\ UNCHANGED <<currentState, nvs>>
           /\ LoopTail(set)
    /\ tick' = Ticked("SYNC_NTP")
    /\ UNCHANGED <<envVars, wifiAttempts, publishQueue, sensorsWithPendingData,
                   lastReadAttemptMs, lastPublishTimeMs, hasValidReading,
                   bootStatusPublished, lastPeriodicCheck, bootReports, wifiBegins, c3Frame>>

\* case CONNECT_MQTT
C3_ConnectMqtt ==
    /\ currentState = "CONNECT_MQTT"
    /\ sensorsToReadQueue' = C3_queueAtSwitch
    /\ \E connected \in ConnectOutcomes :
        /\ mqttConnected' = connected
        /\ IF connected
           THEN /\ currentState' = IF ~bootStatusPublished
                                   THEN "PUBLISH_BOOT_STATUS" ELSE "READ_SENSORS"
                /\ UNCHANGED nvs
           ELSE IF checkTimeout(stateStartTime, MQTT_CONNECT_TIMEOUT_MS)
                THEN LET r == handleRestartWithReason(MQTT_TIMEOUT, timeSuccessfullySet)
                     IN  /\ nvs' = r.nvs
                         /\ currentState' = r.state
                ELSE UNCHANGED <<currentState, nvs>>
    /\ LoopTail(timeSuccessfullySet)
    /\ tick' = Ticked("CONNECT_MQTT")
    /\ UNCHANGED <<now, wifiConnected, clockValid, epochTime, stateStartTime, wifiAttempts,
                   ntpAttempts, publishQueue, sensorsWithPendingData, lastReadAttemptMs,
                   lastPublishTimeMs, hasValidReading, bootStatusPublished,
                   lastPeriodicCheck, bootReports, wifiBegins, c3Frame>>

\* case PUBLISH_BOOT_STATUS
C3_PublishBootStatus ==
    /\ currentState = "PUBLISH_BOOT_STATUS"
    /\ sensorsToReadQueue' = C3_queueAtSwitch
    /\ LET pq == queueForPublish([queue |-> publishQueue, pending |-> sensorsWithPendingData],
                                 bootStatusItem(nvs, timeSuccessfullySet))
       IN  /\ publishQueue' = pq.queue
           /\ sensorsWithPendingData' = pq.pending
    /\ nvs' = bootStatusStorage(nvs)
    /\ bootStatusPublished' = TRUE
    /\ currentState' = "READ_SENSORS"
    /\ bootReports' = Saturate(bootReports)
    /\ LoopTail(timeSuccessfullySet)
    /\ tick' = Ticked("PUBLISH_BOOT_STATUS")
    /\ UNCHANGED <<envVars, stateStartTime, wifiAttempts, ntpAttempts, lastReadAttemptMs,
                   lastPublishTimeMs, hasValidReading, lastPeriodicCheck, wifiBegins,
                   c3Frame>>

\* case READ_SENSORS
C3_ReadSensors ==
    /\ currentState = "READ_SENSORS"
    /\ currentState' = "WAIT"
    /\ LET uq == C3_queueAtSwitch
       IN  IF uq.queue # <<>>
           THEN LET sensor == Head(uq.queue)
                    readTimestamp == getFormattedISO8601Time(timeSuccessfullySet)
                IN  /\ sensorsToReadQueue' = dequeue(uq)
                    /\ lastReadAttemptMs' = [lastReadAttemptMs EXCEPT ![sensor] = now]
                    /\ \E readOk \in BOOLEAN :
                        LET readings == getAllReadings(sensor, readOk, readTimestamp, 1)
                            pq == queueAllForPublish(
                                      [queue |-> publishQueue,
                                       pending |-> sensorsWithPendingData],
                                      IF readOk THEN readings ELSE <<>>)
                        IN  /\ hasValidReading' = [hasValidReading EXCEPT ![sensor] = readOk]
                            /\ publishQueue' = pq.queue
                            /\ sensorsWithPendingData' = pq.pending
                            /\ tick' = [state |-> "READ_SENSORS", writes |-> 0, sent |-> 0,
                                        ok |-> readOk, coalesced |-> 0, since |-> EnteredAt, at |-> now, inits |-> <<>>]
           ELSE /\ sensorsToReadQueue' = uq
                /\ tick' = Ticked("READ_SENSORS")
                /\ UNCHANGED <<lastReadAttemptMs, hasValidReading, publishQueue,
                               sensorsWithPendingData>>
    /\ LoopTail(timeSuccessfullySet)
    /\ UNCHANGED <<envVars, nvs, stateStartTime, wifiAttempts, ntpAttempts,
                   lastPublishTimeMs, bootStatusPublished, lastPeriodicCheck, bootReports,
                   wifiBegins, c3Frame>>

\* variant of the disconnected branch that gives up the item at the head of the queue
C3_PublishDataDisconnectedDrops ==
    /\ currentState' = "CONNECT_MQTT"
    /\ tick' = Ticked("PUBLISH_DATA")
    /\ publishQueue' = SubSeq(publishQueue, 2, Len(publishQueue))
    /\ UNCHANGED <<sensorsWithPendingData, lastPublishTimeMs>>

\* case PUBLISH_DATA with the transport disconnected
C3_PublishDataDisconnected ==
    /\ currentState' = "CONNECT_MQTT"
    /\ tick' = Ticked("PUBLISH_DATA")
    /\ UNCHANGED <<publishQueue, sensorsWithPendingData, lastPublishTimeMs>>

\* case PUBLISH_DATA
C3_PublishData ==
    /\ currentState = "PUBLISH_DATA"
    /\ sensorsToReadQueue' = C3_queueAtSwitch
    /\ IF ~mqttConnected
       THEN C3_PublishDataDisconnected
       ELSE IF publishQueue # <<>>
            THEN \E transportOk \in BOOLEAN :
                   LET item == Head(publishQueue)
                       published == publishJson(item.timestampIsoUtc, item.uuid,
                                                item.serializedValue, transportOk)
                   IN  /\ publishQueue' = dequeueForPublish(publishQueue)
                       /\ lastPublishTimeMs' =
                              IF published /\ item.sourceSensor # nullptr
                              THEN [lastPublishTimeMs EXCEPT ![item.sourceSensor] = now]
                              ELSE lastPublishTimeMs
                       /\ sensorsWithPendingData' =
                              IF published
                              THEN markPublishComplete(sensorsWithPendingData, item)
                              ELSE sensorsWithPendingData
                       /\ currentState' = "WAIT"
                       /\ tick' = [state |-> "PUBLISH_DATA", writes |-> 0, sent |-> 1,
                                   ok |-> published, coalesced |-> 0, since |-> EnteredAt, at |-> now, inits |-> <<>>]
            ELSE /\ currentState' = "WAIT"
                 /\ tick' = Ticked("PUBLISH_DATA")
                 /\ UNCHANGED <<publishQueue, sensorsWithPendingData, lastPublishTimeMs>>
    /\ LoopTail(timeSuccessfullySet)
    /\ UNCHANGED <<envVars, nvs, stateStartTime, wifiAttempts, ntpAttempts,
                   lastReadAttemptMs, hasValidReading, bootStatusPublished,
                   lastPeriodicCheck, bootReports, wifiBegins, c3Frame>>

\* case OPERATIONAL_PERIODIC_CHECKS
C3_PeriodicChecks ==
    /\ currentState = "OPERATIONAL_PERIODIC_CHECKS"
    /\ sensorsToReadQueue' = C3_queueAtSwitch
    /\ IF now >= MAINTENANCE_RESTART_INTERVAL_MS
       THEN /\ nvs' = storeRestartReason(MAINTENANCE_RESTART, timeSuccessfullySet)
            /\ currentState' = "RESTART"
            /\ UNCHANGED lastPeriodicCheck
       ELSE /\ lastPeriodicCheck' = now
            /\ currentState' = "WAIT"
            /\ UNCHANGED nvs
    /\ LoopTail(timeSuccessfullySet)
    /\ tick' = Ticked("OPERATIONAL_PERIODIC_CHECKS")
    /\ UNCHANGED <<envVars, stateStartTime, wifiAttempts, ntpAttempts, publishQueue,
                   sensorsWithPendingData, lastReadAttemptMs, lastPublishTimeMs,
                   hasValidReading, bootStatusPublished, bootReports, wifiBegins, c3Frame>>

\* variant that enters the periodic checks without waiting for the interval
C3_waitBranchNoInterval(uq) ==
    IF ~wifiConnected THEN "CONNECT_WIFI"
    ELSE IF ~mqttConnected THEN "CONNECT_MQTT"
    ELSE IF USub(now, lastPeriodicCheck) >= 0
         THEN "OPERATIONAL_PERIODIC_CHECKS"
    ELSE IF publishQueue # <<>> THEN "PUBLISH_DATA"
    ELSE IF uq.queue # <<>> THEN "READ_SENSORS"
    ELSE "WAIT"

\* the branch case WAIT takes
C3_waitBranch(uq) ==
    IF ~wifiConnected THEN "CONNECT_WIFI"
    ELSE IF ~mqttConnected THEN "CONNECT_MQTT"
    ELSE IF USub(now, lastPeriodicCheck) >= PERIODIC_CHECKS_INTERVAL_MS
         THEN "OPERATIONAL_PERIODIC_CHECKS"
    ELSE IF publishQueue # <<>> THEN "PUBLISH_DATA"
    ELSE IF uq.queue # <<>> THEN "READ_SENSORS"
    ELSE "WAIT"

\* case WAIT; its last branch calls checkSensorsNeedingRead() once more
C3_Wait ==
    /\ currentState = "WAIT"
    /\ sensorsToReadQueue' = C3_queueAtSwitch
    /\ currentState' = C3_waitBranch(C3_queueAtSwitch)
    /\ LoopTail(timeSuccessfullySet)
    /\ tick' = Ticked("WAIT")
    /\ UNCHANGED <<envVars, nvs, stateStartTime, wifiAttempts, ntpAttempts, publishQueue,
                   sensorsWithPendingData, lastReadAttemptMs, lastPublishTimeMs,
                   hasValidReading, bootStatusPublished, lastPeriodicCheck, bootReports,
                   wifiBegins, c3Frame>>

\* no actuators on controller3
NoActuators ==
    /\ pendingActuatorCommands = <<>>
    /\ actuatorsToProcessQueue = <<>>
    /\ actuatorsInProcessQueueSet = {}
    /\ pin = <<>>
    /\ lastSuccessfulPayload = <<>>
    /\ lastPublishTimeMillis = <<>>
    /\ lastAccepted = <<>>
    /\ routed = <<>>

\* case RESTART: ESP.restart() reboots the process; only Preferences survive
C3_Restart ==
    /\ currentState = "RESTART"
    /\ now' = 0
    /\ wifiConnected' = FALSE
    /\ mqttConnected' = FALSE
    /\ clockValid' = FALSE
    /\ UNCHANGED epochTime
    /\ currentState' = "SETUP_HW"
    /\ stateStartTime' = 0
    /\ wifiAttempts' = 0
    /\ ntpAttempts' = 0
    /\ timeSuccessfullySet' = FALSE
    /\ lastNtpLoopUpdate' = 0
    /\ publishQueue' = <<>>
    /\ sensorsToReadQueue' = NoSensors
    /\ sensorsWithPendingData' = {}
    /\ lastReadAttemptMs' = [s \in Sensors |-> 0]
    /\ lastPublishTimeMs' = [s \in Sensors |-> ULONG_MAX - publishIntervalMs]
    /\ hasValidReading' = [s \in Sensors |-> FALSE]
    /\ bootStatusPublished' = FALSE
    /\ lastPeriodicCheck' = 0
    /\ bootReports' = 0
    /\ wifiBegins' = 0
    /\ events' = 0
    /\ tick' = [Ticked("RESTART") EXCEPT !.since = 0, !.at = 0]
    /\ UNCHANGED <<nvs, c2Vars, callResult, routed>>

\* controller3 after setup() on a device with empty Preferences
Init3 ==
    /\ now = 0
    /\ wifiConnected = FALSE
    /\ mqttConnected = FALSE
    /\ clockValid = FALSE
    /\ epochTime = 0
    /\ nvs = NoRecord
    /\ currentState = "SETUP_HW"
    /\ stateStartTime = 0
    /\ wifiAttempts = 0
    /\ ntpAttempts = 0
    /\ timeSuccessfullySet = FALSE
    /\ lastNtpLoopUpdate = 0
    /\ publishQueue = <<>>
    /\ NoActuators
    /\ sensorsToReadQueue = NoSensors
    /\ sensorsWithPendingData = {}
    /\ lastReadAttemptMs = [s \in Sensors |-> 0]
    /\ lastPublishTimeMs = [s \in Sensors |-> ULONG_MAX - publishIntervalMs]
    /\ hasValidReading = [s \in Sensors |-> FALSE]
    /\ bootStatusPublished = FALSE
    /\ lastPeriodicCheck = 0
    /\ callResult = NoCall
    /\ tick = Idle
    /\ bootReports = 0
    /\ wifiBegins = 0
    /\ events = 0

Next3 ==
    \/ AdvanceTime
    \/ WifiUp
    \/ WifiDown
    \/ MqttDown
    \/ ClockSync
    \/ C3_SetupHw
    \/ C3_ConnectWifi
    \/ C3_SyncNtp
    \/ C3_ConnectMqtt
    \/ C3_PublishBootStatus
    \/ C3_ReadSensors
    \/ C3_PublishData
    \/ C3_PeriodicChecks
    \/ C3_Wait
    \/ C3_Restart

Spec3 == Init3 /\ [][Next3]_vars

\* ------------------------------------------------------------------ controller3 properties
\* the sensors that have a reading waiting in the publish queue
Unpublished == {publishQueue[i].sourceSensor : i \in 1..Len(publishQueue)} \ {nullptr}

\* C3 (scheduling safety): no sensor with an unpublished reading in the publish queue is
\* in the sensors-to-read queue, and READ_SENSORS reads no such sensor.
C3_SchedulingSafety ==
    /\ \A s \in Unpublished : ~contains(sensorsToReadQueue, s)
    /\ \A s \in Unpublished : s \notin Range(sensorsToReadQueue.queue)

\* C9 (WiFi attempts): when CONNECT_WIFI gives up and enters RESTART, exactly
\* MAX_WIFI_ATTEMPTS connection attempts were started, and WIFI_TIMEOUT is stored with the
\* formatted time if the clock was synchronized, else with an empty timestamp.
C9_WifiAttempts ==
    [][(currentState = "CONNECT_WIFI" /\ currentState' = "RESTART")
        => /\ wifiBegins = MAX_WIFI_ATTEMPTS
           /\ nvs'.reason = <<WIFI_TIMEOUT>>
           /\ nvs'.timestamp = <<IF timeSuccessfullySet
                                 THEN getFormattedISO8601Time(TRUE) ELSE EmptyString>>]_vars

\* C11 (publish before maintenance): a controller3 WAIT tick with WiFi and the broker up
\* and a non-empty publish queue goes to PUBLISH_DATA even when the periodic-check
\* interval has elapsed; it goes to OPERATIONAL_PERIODIC_CHECKS only with an empty
\* publish queue, and to READ_SENSORS only when neither applies.
C11_PublishBeforeMaintenance ==
    [][(C3_Wait /\ wifiConnected /\ mqttConnected)
        => /\ publishQueue # <<>> => currentState' = "PUBLISH_DATA"
           /\ currentState' = "OPERATIONAL_PERIODIC_CHECKS" => publishQueue = <<>>
           /\ currentState' = "READ_SENSORS"
                  => /\ publishQueue = <<>>
                     /\ USub(now, lastPeriodicCheck) < PERIODIC_CHECKS_INTERVAL_MS]_vars

\* ------------------------------------------------------------------ UniqueQueue under direct calls
\* A UniqueQueue instance driven by arbitrary tryEnqueue / dequeue / clear calls, next to
\* controller2 on a stable network (the router and PROCESS_COMMANDS keep the actuator
\* queue and set by hand).
UQItems == {"x", "y", "z"}

c3Rest == <<sensorsWithPendingData, lastReadAttemptMs, lastPublishTimeMs, hasValidReading,
            bootStatusPublished, lastPeriodicCheck>>

UQ_TryEnqueue ==
    /\ \E item \in UQItems :
         /\ sensorsToReadQueue' = tryEnqueue(sensorsToReadQueue, item)
         /\ callResult' = [op |-> "tryEnqueue", arg |-> item,
                           result |-> ~contains(sensorsToReadQueue, item)]
    /\ UNCHANGED <<envVars, nvs, fsmVars, ntpVars, publishQueue, c2Vars, c3Rest, histVars>>

\* the caller checks empty() first
UQ_Dequeue ==
    /\ sensorsToReadQueue.queue # <<>>
    /\ sensorsToReadQueue' = dequeue(sensorsToReadQueue)
    /\ callResult' = [op |-> "dequeue", arg |-> <<>>,
                      result |-> Head(sensorsToReadQueue.queue)]
    /\ UNCHANGED <<envVars, nvs, fsmVars, ntpVars, publishQueue, c2Vars, c3Rest, histVars>>

UQ_Clear ==
    /\ sensorsToReadQueue' = clear(sensorsToReadQueue)
    /\ callResult' = [op |-> "clear", arg |-> <<>>, result |-> <<>>]
    /\ UNCHANGED <<envVars, nvs, fsmVars, ntpVars, publishQueue, c2Vars, c3Rest, histVars>>

NextUQ ==
    \/ UQ_TryEnqueue
    \/ UQ_Dequeue
    \/ UQ_Clear
    \/ WifiUp
    \/ ClockSync
    \/ MqttCallback
    \/ C2_ConnectWifi
    \/ C2_SyncNtp
    \/ C2_ConnectMqtt
    \/ C2_PublishBootStatus
    \/ C2_ProcessCommands
    \/ C2_PublishData
    \/ C2_Wait

SpecUQ == Init2 /\ [][NextUQ]_vars

NoDuplicates(q) == \A i, j \in 1..Len(q) : i # j => q[i] # q[j]

\* C4 (at most one queued): in the UniqueQueue, and in the actuator queue / set pair, no
\* item is queued twice and the tracking set is exactly the set of queued items.
C4_AtMostOneQueued ==
    /\ NoDuplicates(sensorsToReadQueue.queue)
    /\ sensorsToReadQueue.tracking = Range(sensorsToReadQueue.queue)
    /\ \A x \in UQItems : contains(sensorsToReadQueue, x) <=> x \in Range(sensorsToReadQueue.queue)
    /\ NoDuplicates(actuatorsToProcessQueue)
    /\ actuatorsInProcessQueueSet = Range(actuatorsToProcessQueue)

\* a tryEnqueue of an item already queued has just been refused, and the router has
\* accepted a second command for an actuator that is still queued
C4_Witness ==
    /\ callResult.op = "tryEnqueue"
    /\ callResult.result = FALSE
    /\ Len(sensorsToReadQueue.queue) >= 2
    /\ \E a \in Actuators : routed[a] >= 2 /\ a \in actuatorsInProcessQueueSet

\* ------------------------------------------------------------------ RestartReasonLogger under direct calls
RL_Store ==
    /\ \E reason \in RestartReasons :
         /\ nvs' = storeRestartReason(reason, timeSuccessfullySet)
         /\ callResult' = [op |-> "store", arg |-> reason,
                           result |-> IF timeSuccessfullySet
                                      THEN <<"iso", ToString(epochTime)>> ELSE EmptyString]
    /\ UNCHANGED <<envVars, fsmVars, ntpVars, publishQueue, c2Vars, c3Vars, histVars>>

\* getStoredRestartEvent(): read, then clear
RL_Consume ==
    /\ callResult' = [op |-> "consume", arg |-> <<>>, result |-> getStoredRestartEvent(nvs)]
    /\ nvs' = clearStoredRestartReason(nvs)
    /\ UNCHANGED <<envVars, fsmVars, ntpVars, publishQueue, c2Vars, c3Vars, histVars>>

\* the boot report as PUBLISH_BOOT_STATUS builds it when a record is stored; the FSM
\* reaches that state only after SYNC_NTP has seen the time synchronized
RL_CreatePublishData ==
    /\ hasStoredRestartReason(nvs)
    /\ timeSuccessfullySet
    /\ callResult' = [op |-> "createPublishData", arg |-> nvs.reason[1],
                      result |-> createPublishData(nvs, timeSuccessfullySet,
                                     TOPIC_LastRestartReason_DATA,
                                     UUID_LastRestartReason_DATA)]
    /\ nvs' = clearStoredRestartReason(nvs)
    /\ UNCHANGED <<envVars, fsmVars, ntpVars, publishQueue, c2Vars, c3Vars, histVars>>

\* ntpService.update()
RL_NtpUpdate ==
    /\ timeSuccessfullySet' = NtpUpdate(timeSuccessfullySet)
    /\ timeSuccessfullySet' # timeSuccessfullySet
    /\ UNCHANGED <<envVars, nvs, fsmVars, lastNtpLoopUpdate, publishQueue, c2Vars, c3Vars,
                   callResult, histVars>>

\* the wall clock advances
RL_WallClock ==
    /\ epochTime < MaxTime
    /\ epochTime' = epochTime + 1
    /\ UNCHANGED <<now, wifiConnected, mqttConnected, clockValid, nvs, fsmVars, ntpVars,
                   publishQueue, c2Vars, c3Vars, callResult, histVars>>

\* a reboot: RAM is lost, Preferences are kept
RL_Reboot ==
    /\ timeSuccessfullySet \/ wifiConnected
    /\ timeSuccessfullySet' = FALSE
    /\ wifiConnected' = FALSE
    /\ clockValid' = FALSE
    /\ UNCHANGED <<now, mqttConnected, epochTime, nvs, fsmVars, lastNtpLoopUpdate,
                   publishQueue, c2Vars, c3Vars, callResult, histVars>>

NextRL ==
    \/ RL_Store
    \/ RL_Consume
    \/ RL_CreatePublishData
    \/ RL_NtpUpdate
    \/ RL_WallClock
    \/ RL_Reboot
    \/ WifiUp
    \/ ClockSync

SpecRL == Init2 /\ [][NextRL]_vars

DefaultEvent == [reason |-> UNKNOWN_RESET, timestamp |-> EmptyString]

C6_ReasonRoundTrip ==
    [][RL_CreatePublishData
        => LET r == nvs.reason[1]
               value == callResult'.result.serializedValue
           IN  /\ value = <<"unknown_reset">> <=> r = UNKNOWN_RESET
               /\ r # UNKNOWN_RESET
                      => \A other \in RestartReasons \ {r} :
                             value # restartReasonToString(other)]_vars

\* ------------------------------------------------------------------ PROCESS_COMMANDS on any payload
\* case PROCESS_COMMANDS applied to every pending payload of a bounded set (the router
\* itself admits only "on" and "off").
CommandPayloads ==
    { ON, OFF, <<"O", "N">>, <<"O", "f", "F">>, <<"O", "N", " ">>, <<" ", "o", "n">>,
      <<"t", "o", "g", "g", "l", "e">>, EmptyString }

InitCmd ==
    /\ now = 0
    /\ wifiConnected = TRUE
    /\ mqttConnected = TRUE
    /\ clockValid = TRUE
    /\ epochTime = 0
    /\ nvs = NoRecord
    /\ currentState = "PROCESS_COMMANDS"
    /\ stateStartTime = 0
    /\ wifiAttempts = 0
    /\ ntpAttempts = 0
    /\ timeSuccessfullySet = TRUE
    /\ lastNtpLoopUpdate = 0
    /\ publishQueue = <<>>
    /\ pendingActuatorCommands \in [Actuators -> CommandPayloads]
    /\ actuatorsToProcessQueue = ActuatorPoints
    /\ actuatorsInProcessQueueSet = Actuators
    /\ pin = [a \in Actuators |-> initialize(a)]
    /\ lastSuccessfulPayload = [a \in Actuators |-> EmptyString]
    /\ lastPublishTimeMillis = [a \in Actuators |-> 0]
    /\ sensorsToReadQueue = NoSensors
    /\ sensorsWithPendingData = {}
    /\ lastReadAttemptMs = <<>>
    /\ lastPublishTimeMs = <<>>
    /\ hasValidReading = <<>>
    /\ bootStatusPublished = FALSE
    /\ lastPeriodicCheck = 0
    /\ callResult = NoCall
    /\ tick = Idle
    /\ lastAccepted = pendingActuatorCommands
    /\ routed = [a \in Actuators |-> 0]
    /\ bootReports = 0
    /\ wifiBegins = 0
    /\ events = 0

NextCmd ==
    \/ C2_ProcessCommands
    \/ C2_PublishData
    \/ C2_Wait

SpecCmd == InitCmd /\ [][NextCmd]_vars

\* the spellings of "on" and "off" in any letter case
OnOffSpellings ==
    {<<a, b>> : a \in {"o", "O"}, b \in {"n", "N"}}
        \cup {<<a, b, c>> : a \in {"o", "O"}, b \in {"f", "F"}, c \in {"f", "F"}}

\* C8 (rejected payload): a PROCESS_COMMANDS step whose pending payload is no spelling of
\* "on" or "off" fails the command, writes no pin, leaves the last successful payload
\* and the publish queue as they were, removes the pending entry, and does not go to
\* RESTART.
C8_RejectedPayload ==
    [][(C2_ProcessCommands /\ actuatorsToProcessQueue # <<>>
            /\ pendingOf(pendingActuatorCommands, Head(actuatorsToProcessQueue))
                   \notin OnOffSpellings)
        => LET a == Head(actuatorsToProcessQueue)
           IN  /\ tick'.ok = FALSE
               /\ tick'.writes = 0
               /\ pin' = pin
               /\ lastSuccessfulPayload' = lastSuccessfulPayload
               /\ publishQueue' = publishQueue
               /\ a \notin DOMAIN pendingActuatorCommands'
               /\ currentState' # "RESTART"]_vars

\* PROCESS_COMMANDS has just rejected "ON " (trailing space) for a1: no write, no
\* readback, the entry gone
C8_Witness ==
    /\ tick.state = "PROCESS_COMMANDS"
    /\ ~tick.ok
    /\ lastAccepted["a1"] = <<"O", "N", " ">>
    /\ "a1" \notin DOMAIN pendingActuatorCommands
    /\ "a2" \in DOMAIN pendingActuatorCommands
    /\ pin["a1"] = "UNWRITTEN"
    /\ publishQueue = <<>>
    /\ currentState = "PUBLISH_DATA"

C15_reasonOf(state) ==
    CASE state = "SETUP_HW" -> SENSOR_INIT_FAILED
      [] state = "CONNECT_WIFI" -> WIFI_TIMEOUT
      [] state = "SYNC_NTP" -> NTP_TIMEOUT
      [] state = "CONNECT_MQTT" -> MQTT_TIMEOUT
      [] state = "OPERATIONAL_PERIODIC_CHECKS" -> MAINTENANCE_RESTART
      [] OTHER -> UNKNOWN_RESET

C16_MqttTimeoutFromEntry ==
    [][(currentState = "CONNECT_MQTT" /\ currentState' = "RESTART")
        => /\ nvs'.reason = <<MQTT_TIMEOUT>>
           /\ USub(now, tick.since) > MQTT_CONNECT_TIMEOUT_MS]_vars

\* ------------------------------------------------------------------ boot chain of controller3
\* C17 (boot chain): a SETUP_HW iteration ends in CONNECT_WIFI or RESTART; a CONNECT_WIFI
\* iteration in CONNECT_WIFI, SYNC_NTP (only with WiFi connected) or RESTART; a SYNC_NTP
\* iteration in SYNC_NTP, CONNECT_MQTT (only with the clock synchronized) or RESTART; a
\* CONNECT_MQTT iteration in CONNECT_MQTT, PUBLISH_BOOT_STATUS (READ_SENSORS once the
\* boot status was queued; either only with the broker connected) or RESTART; and
\* PUBLISH_BOOT_STATUS is entered from CONNECT_MQTT only.
C17_BootChain ==
    [][/\ C3_SetupHw => currentState' \in {"CONNECT_WIFI", "RESTART"}
       /\ C3_ConnectWifi => /\ currentState' \in {"CONNECT_WIFI", "SYNC_NTP", "RESTART"}
                            /\ currentState' = "SYNC_NTP" => wifiConnected
       /\ C3_SyncNtp => /\ currentState' \in {"SYNC_NTP", "CONNECT_MQTT", "RESTART"}
                        /\ currentState' = "CONNECT_MQTT" => timeSuccessfullySet'
       /\ C3_ConnectMqtt
              => /\ currentState' \in {"CONNECT_MQTT", "PUBLISH_BOOT_STATUS",
                                       "READ_SENSORS", "RESTART"}
                 /\ currentState' = "PUBLISH_BOOT_STATUS"
                        => mqttConnected' /\ ~bootStatusPublished
                 /\ currentState' = "READ_SENSORS" => mqttConnected' /\ bootStatusPublished
       /\ (currentState' = "PUBLISH_BOOT_STATUS" /\ currentState # "PUBLISH_BOOT_STATUS")
              => currentState = "CONNECT_MQTT" /\ timeSuccessfullySet
       /\ currentState' # currentState
              => (currentState \in {"SETUP_HW", "CONNECT_WIFI", "SYNC_NTP", "CONNECT_MQTT"}
                     => tick'.state = currentState)]_vars

\* CONNECT_MQTT has just reconnected after the boot status was queued and went on to
\* the operational phase
C17_Witness ==
    /\ tick.state = "CONNECT_MQTT"
    /\ currentState = "READ_SENSORS"
    /\ bootStatusPublished
    /\ mqttConnected

\* ------------------------------------------------------------------ the boot of controller3
\* millis() during boot: loop() is called at least once per time unit, so the counter
\* moves on only after an iteration has run at its present value
BootClock ==
    /\ now < BootHorizon
    /\ tick.at = now
    /\ now' = now + 1
    /\ UNCHANGED <<wifiConnected, mqttConnected, clockValid, epochTime, nvs, fsmVars, ntpVars,
                   publishQueue, c2Vars, c3Vars, callResult, histVars>>

\* one iteration of loop() up to the first WAIT
C3_BootLoop ==
    \/ C3_SetupHw
    \/ C3_ConnectWifi
    \/ C3_SyncNtp
    \/ C3_ConnectMqtt
    \/ C3_PublishBootStatus
    \/ C3_ReadSensors
    \/ C3_Restart

NextBoot3 ==
    \/ BootClock
    \/ WifiUp
    \/ WifiDown
    \/ MqttDown
    \/ ClockSync
    \/ C3_SetupHw
    \/ C3_ConnectWifi
    \/ C3_SyncNtp
    \/ C3_ConnectMqtt
    \/ C3_PublishBootStatus
    \/ C3_ReadSensors
    \/ C3_Restart

\* loop() keeps being called and millis() keeps advancing
SpecBoot3 == Init3 /\ [][NextBoot3]_vars /\ WF_vars(C3_BootLoop) /\ WF_vars(BootClock)

BootPhases == {"SETUP_HW", "CONNECT_WIFI", "SYNC_NTP", "CONNECT_MQTT",
               "PUBLISH_BOOT_STATUS", "READ_SENSORS"}

\* the longest a boot phase can last: one unit until its first iteration, then its
\* attempts at timeout + 1 units each
BootPhaseTime(phase) ==
    CASE phase = "CONNECT_WIFI"
             -> 1 + (MAX_WIFI_ATTEMPTS - 1) * (WIFI_ATTEMPT_TIMEOUT_MS + 1)
      [] phase = "SYNC_NTP"
             -> 1 + (MAX_NTP_ATTEMPTS - 1) * (NTP_ATTEMPT_TIMEOUT_MS + 1)
      [] phase = "CONNECT_MQTT" -> 1 + (MQTT_CONNECT_TIMEOUT_MS + 1)
      [] OTHER -> 1

BootTime ==
    BootPhaseTime("SETUP_HW") + BootPhaseTime("CONNECT_WIFI") + BootPhaseTime("SYNC_NTP")
        + BootPhaseTime("CONNECT_MQTT") + BootPhaseTime("PUBLISH_BOOT_STATUS")
        + BootPhaseTime("READ_SENSORS")

\* C18 (the boot ends): with loop() called again and again and millis() advancing, the
\* FSM leaves every boot phase (it never stays in CONNECT_WIFI, SYNC_NTP or
\* CONNECT_MQTT), and a boot reaches WAIT or RESTART; each within the time its attempts
\* and timeouts add up to, as far as that time lies within the explored horizon.
C18_BootEnds ==
    /\ \A phase \in BootPhases :
           (currentState = phase /\ now + BootPhaseTime(phase) <= BootHorizon)
               ~> (currentState # phase)
    /\ (currentState \in BootPhases /\ now + BootTime <= BootHorizon)
           ~> (currentState \in {"WAIT", "RESTART"})

\* a boot in which WiFi never connected has ended in RESTART after the attempts timed out
C18_Witness ==
    /\ currentState = "RESTART"
    /\ tick.state = "CONNECT_WIFI"
    /\ nvs.reason = <<WIFI_TIMEOUT>>
    /\ ~wifiConnected
    /\ now >= WIFI_ATTEMPT_TIMEOUT_MS + 1

\* C19 (retry counters reset): every CONNECT_WIFI -> SYNC_NTP transition leaves the WiFi
\* attempt counter at 0 and every SYNC_NTP -> CONNECT_MQTT transition leaves the NTP attempt
\* counter at 0, so that every entry into CONNECT_WIFI or SYNC_NTP from another state, at
\* boot or on a later reconnect, starts with the counter of that phase at 0.
C19_CountersReset ==
    [][/\ (currentState = "CONNECT_WIFI" /\ currentState' = "SYNC_NTP") => wifiAttempts' = 0
       /\ (currentState = "SYNC_NTP" /\ currentState' = "CONNECT_MQTT") => ntpAttempts' = 0
       /\ (currentState # "CONNECT_WIFI" /\ currentState' = "CONNECT_WIFI")
              => wifiAttempts' = 0
       /\ (currentState # "SYNC_NTP" /\ currentState' = "SYNC_NTP")
              => ntpAttempts' = 0]_vars

\* a reconnect episode after the boot: WiFi was lost in operation, CONNECT_WIFI has started
\* an attempt and has now moved on to SYNC_NTP with the counter back at 0
C19_Witness ==
    /\ tick.state = "CONNECT_WIFI"
    /\ currentState = "SYNC_NTP"
    /\ bootStatusPublished
    /\ stateStartTime = now
    /\ wifiAttempts = 0
    /\ ntpAttempts = 0

C1_SetupHw ==
    /\ currentState = "SETUP_HW"
    /\ \E working \in SUBSET C1_Sensors :
         LET initialized == initializeSensors(C1_SensorPoints, working)
         IN  /\ IF initialized.ok
                THEN /\ currentState' = "CONNECT_WIFI"
                     /\ UNCHANGED nvs
                     /\ LoopTail(timeSuccessfullySet)
                ELSE LET r == handleRestartWithReason(SENSOR_INIT_FAILED,
                                                      timeSuccessfullySet)
                     IN  /\ nvs' = r.nvs
                         /\ currentState' = r.state
                         /\ UNCHANGED ntpVars
             /\ tick' = [Ticked("SETUP_HW") EXCEPT !.inits = initialized.calls]
    /\ UNCHANGED <<envVars, stateStartTime, wifiAttempts, ntpAttempts, publishQueue,
                   sensorsToReadQueue, sensorsWithPendingData, lastReadAttemptMs,
                   lastPublishTimeMs, hasValidReading, bootStatusPublished,
                   lastPeriodicCheck, bootReports, wifiBegins, c3Frame>>

\* case RESTART: ESP.restart(), then setup()
C1_Restart ==
    /\ currentState = "RESTART"
    /\ C3_Restart

NextSetupHw1 ==
    \/ AdvanceTime
    \/ WifiUp
    \/ WifiDown
    \/ ClockSync
    \/ C1_SetupHw
    \/ C1_Restart

SpecSetupHw1 == Init3 /\ [][NextSetupHw1]_vars

Iteration == tick' # tick

\* C23 (disconnected publish): a PUBLISH_DATA iteration that finds the transport
\* disconnected leaves the publish queue (contents and order), the set of sensors with
\* pending data and every last-publish stamp as they were, and ends in CONNECT_MQTT.
C23_DisconnectedKeepsQueue ==
    [][(currentState = "PUBLISH_DATA" /\ ~mqttConnected /\ Iteration)
        => /\ publishQueue' = publishQueue
           /\ sensorsWithPendingData' = sensorsWithPendingData
           /\ lastPublishTimeMs' = lastPublishTimeMs
           /\ lastPublishTimeMillis' = lastPublishTimeMillis
           /\ currentState' = "CONNECT_MQTT"]_vars

\* PUBLISH_DATA has just found the broker gone while readings of a sensor were waiting
C23_Witness ==
    /\ tick.state = "PUBLISH_DATA"
    /\ tick.sent = 0
    /\ currentState = "CONNECT_MQTT"
    /\ ~mqttConnected
    /\ Len(publishQueue) >= 2
    /\ sensorsWithPendingData # {}

\* a PUBLISH_DATA iteration that handed the head of the queue to the transport
SendAttempt ==
    /\ currentState = "PUBLISH_DATA"
    /\ tick' # tick \/ publishQueue' # publishQueue
    /\ tick'.state = "PUBLISH_DATA"
    /\ tick'.sent = 1

\* C24 (rejected send): when the transport rejects the send of a PUBLISH_DATA iteration,
\* the item leaves the queue and is not put back, nothing else is sent in the iteration,
\* no last-publish stamp changes, the Restart Log is not written, and the FSM goes on as
\* after a successful send: to WAIT (in controller2 to PUBLISH_DATA while items remain).
C24_RejectedSendDropped ==
    [][(SendAttempt /\ ~tick'.ok)
        => /\ publishQueue # <<>>
           /\ publishQueue' = Tail(publishQueue)
           /\ lastPublishTimeMs' = lastPublishTimeMs
           /\ lastPublishTimeMillis' = lastPublishTimeMillis
           /\ nvs' = nvs
           /\ \/ currentState' = "WAIT"
              \/ /\ currentState' = "PUBLISH_DATA"
                 /\ publishQueue' # <<>>
                 /\ lastPublishTimeMs = <<>>]_vars

\* the transport has just rejected the first of the three readings of a read: it is gone
\* from the queue, the two others wait, the sensor was never published and the FSM is
\* in WAIT
C24_Witness ==
    /\ tick.state = "PUBLISH_DATA"
    /\ tick.sent = 1
    /\ ~tick.ok
    /\ currentState = "WAIT"
    /\ mqttConnected
    /\ Len(publishQueue) = 2
    /\ \A i \in 1..2 : publishQueue[i].sourceSensor # nullptr
    /\ \E s \in Sensors : /\ s \in sensorsWithPendingData
                          /\ lastPublishTimeMs[s] = ULONG_MAX - publishIntervalMs

C26_PendingIffQueued ==
    \A sensor \in Sensors :
        hasPendingData(sensorsWithPendingData, sensor) <=> sensor \in Unpublished

\* ------------------------------------------------------------------ Command Router under direct calls
\* controller2 in its operational phase with WiFi, broker and clock up; every inbound
\* message of a bounded set is delivered to the callback, on a service with and without
\* command management, and the call is recorded.
RouterPayloads ==
    RawPayloads \cup
    { <<"{", "\"", "t", "s", "\"", ":", "1", ",">> \o ValueKey \o OFF \o <<"\"", "}">> }

\* the write topic of the first actuator and a topic that is no actuator's
RouterTopics == {WriteTopic(Head(ActuatorPoints)), <<"write", "other">>}

InitRouter ==
    /\ InitCmd
    /\ pendingActuatorCommands = C2_initialPending

Router_Callback ==
    /\ \E managed \in BOOLEAN, topic \in RouterTopics, payloadStr \in RouterPayloads :
           /\ instanceMqttCallback(managed, topic, payloadStr)
           /\ callResult' = [op |-> "callback",
                             arg |-> [managed |-> managed, topic |-> topic,
                                      payload |-> payloadStr],
                             result |-> routerAccepts(managed, topic, payloadStr)]
    /\ UNCHANGED <<envVars, nvs, fsmVars, ntpVars, publishQueue, actVars, c3Vars, tick,
                   bootReports, wifiBegins, events>>

NextRouter ==
    \/ Router_Callback
    \/ C2_ProcessCommands
    \/ C2_PublishData
    \/ C2_Wait

SpecRouter == InitRouter /\ [][NextRouter]_vars

\* the messages of RouterPayloads that carry a value field holding exactly on or off
WellFormedCommands ==
    { JsonCommand(ON), JsonCommand(OFF),
      <<"{", "\"", "t", "s", "\"", ":", "1", ",">> \o ValueKey \o OFF \o <<"\"", "}">> }

\* C27 (dropped messages change nothing): a message is dropped when command management is
\* not set, the topic is no actuator's write topic, the payload is not a JSON object, the
\* value field is missing or malformed, or the value is not exactly on or off; a dropped
\* message leaves the pending-command map, the work queue and its tracking set as they
\* were.
C27_DroppedChangesNothing ==
    [][Router_Callback
        => LET call == callResult'.arg
               dropped == \/ ~call.managed
                          \/ call.topic \notin {WriteTopic(a) : a \in Actuators}
                          \/ call.payload \notin WellFormedCommands
           IN  /\ dropped <=> ~callResult'.result
               /\ dropped
                      => /\ pendingActuatorCommands' = pendingActuatorCommands
                         /\ actuatorsToProcessQueue' = actuatorsToProcessQueue
                         /\ actuatorsInProcessQueueSet' = actuatorsInProcessQueueSet]_vars

\* the router has just dropped a message with the value ON for an actuator whose valid
\* command on is pending and queued
C27_Witness ==
    /\ callResult.op = "callback"
    /\ ~callResult.result
    /\ callResult.arg.managed
    /\ callResult.arg.payload = JsonCommand(<<"O", "N">>)
    /\ \E a \in Actuators :
           /\ callResult.arg.topic = WriteTopic(a)
           /\ a \in actuatorsInProcessQueueSet
           /\ a \in DOMAIN pendingActuatorCommands
           /\ pendingActuatorCommands[a] = ON

\* C28 (command for a queued actuator): when the router accepts a command for an actuator
\* that is already in the work queue, that actuator's pending entry becomes the new
\* command and nothing else changes: the work queue keeps its contents and order, the
\* tracking set stays, and the pending entries of the other actuators stay.
C28_QueuedOnlyOverwrites ==
    [][(Router_Callback /\ callResult'.result)
        => LET target == CHOOSE a \in Actuators : WriteTopic(a) = callResult'.arg.topic
               value == IF callResult'.arg.payload = JsonCommand(ON) THEN ON ELSE OFF
           IN  target \in actuatorsInProcessQueueSet
                   => /\ actuatorsToProcessQueue' = actuatorsToProcessQueue
                      /\ actuatorsInProcessQueueSet' = actuatorsInProcessQueueSet
                      /\ DOMAIN pendingActuatorCommands' = DOMAIN pendingActuatorCommands
                      /\ pendingActuatorCommands'[target] = value
                      /\ \A other \in DOMAIN pendingActuatorCommands \ {target} :
                             pendingActuatorCommands'[other] = pendingActuatorCommands[other]]_vars

\* the router has just accepted a second command for an actuator that was still queued
\* behind the other actuator, whose initial command is still pending
C28_Witness ==
    /\ callResult.op = "callback"
    /\ callResult.result
    /\ \E a \in Actuators :
           /\ callResult.arg.topic = WriteTopic(a)
           /\ routed[a] >= 2
           /\ pendingActuatorCommands[a] = ON
           /\ Len(actuatorsToProcessQueue) = 2
           /\ \E other \in Actuators \ {a} :
                  /\ other \in DOMAIN pendingActuatorCommands
                  /\ pendingActuatorCommands[other] = getInitialCommandPayload(other)

\* ------------------------------------------------------------------ pending map and work queue
\* C29 (pending map matches the work queue): at every tick boundary the actuators with an
\* entry in the pending-command map are exactly the actuators in the tracking set and
\* exactly those in the work queue, each once; a PROCESS_COMMANDS iteration finds an entry
\* for the actuator it dequeues and removes that actuator from the queue, the set and the
\* map, whether the command was executed or rejected.
C29_PendingIffQueued ==
    /\ [](/\ DOMAIN pendingActuatorCommands = actuatorsInProcessQueueSet
          /\ Range(actuatorsToProcessQueue) = actuatorsInProcessQueueSet
          /\ NoDuplicates(actuatorsToProcessQueue))
    /\ [][(C2_ProcessCommands /\ actuatorsToProcessQueue # <<>>)
            => LET actuator == Head(actuatorsToProcessQueue)
               IN  /\ actuator \in DOMAIN pendingActuatorCommands
                   /\ actuatorsToProcessQueue' = Tail(actuatorsToProcessQueue)
                   /\ actuatorsInProcessQueueSet' = actuatorsInProcessQueueSet \ {actuator}
                   /\ DOMAIN pendingActuatorCommands'
                          = DOMAIN pendingActuatorCommands \ {actuator}
                   /\ \A other \in DOMAIN pendingActuatorCommands' :
                          pendingActuatorCommands'[other]
                              = pendingActuatorCommands[other]]_vars

\* PROCESS_COMMANDS has just executed a command that had overwritten another one; its
\* actuator is gone from the queue, the set and the map, the other actuator is in all
\* three
C29_Witness ==
    /\ tick.state = "PROCESS_COMMANDS"
    /\ tick.coalesced >= 2
    /\ Len(actuatorsToProcessQueue) = 1
    /\ DOMAIN pendingActuatorCommands = {actuatorsToProcessQueue[1]}
    /\ actuatorsInProcessQueueSet = {actuatorsToProcessQueue[1]}

\* C30 (pending payloads are valid): every value in the pending-command map, whether
\* queued by setup() or accepted by the router, is exactly on or off, so
\* executeDeviceCommand accepts it; every PROCESS_COMMANDS iteration that dequeues an
\* actuator executes its command (one pin write), and the command-failed branch is not
\* taken.
C30_PendingValid ==
    /\ [](\A a \in DOMAIN pendingActuatorCommands :
              /\ pendingActuatorCommands[a] \in {ON, OFF}
              /\ executeDeviceCommand(pendingActuatorCommands[a]).ok)
    /\ [][(C2_ProcessCommands /\ actuatorsToProcessQueue # <<>>)
            => /\ tick'.ok
               /\ tick'.writes = 1
               /\ pin'[Head(actuatorsToProcessQueue)] \in {"HIGH", "LOW"}]_vars

\* PROCESS_COMMANDS has just executed a command that came through the router, after both
\* initial commands had been executed
C30_Witness ==
    /\ tick.state = "PROCESS_COMMANDS"
    /\ tick.ok
    /\ tick.coalesced >= 1
    /\ \A a \in Actuators : pin[a] # "UNWRITTEN"
    /\ \E a \in Actuators : lastSuccessfulPayload[a] # getInitialCommandPayload(a)

\* ------------------------------------------------------------------ periodic republish
\* the periodic republish items a WAIT iteration has just appended to the publish queue
RepublishedNow ==
    IF currentState = "WAIT" /\ Iteration /\ Len(publishQueue') > Len(publishQueue)
    THEN {publishQueue'[i].sourceActuator : i \in Len(publishQueue) + 1..Len(publishQueue')}
    ELSE {}

\* C31 (republish spacing): a periodic republish item is enqueued for an actuator only
\* when a full republish interval has elapsed since the last confirmed publish of that
\* actuator's readback, that is only when now - lastPublishTimeMillis >=
\* OUTPUT_REPUBLISH_FREQUENCY_MS.
C31_RepublishAfterInterval ==
    [][\A a \in RepublishedNow :
           USub(now, lastPublishTimeMillis[a]) >= OUTPUT_REPUBLISH_FREQUENCY_MS]_vars

\* ------------------------------------------------------------------ readback contents
\* the items an iteration has just appended to the publish queue
AppendedNow ==
    IF Iteration /\ IsPrefix(publishQueue, publishQueue')
    THEN {publishQueue'[i] : i \in Len(publishQueue) + 1..Len(publishQueue')}
    ELSE {}

\* C32 (readbacks carry the applied state): whenever an actuator's last successful
\* payload is set it is on with the pin HIGH or off with the pin LOW; every readback and
\* every periodic republish item carries, when it is enqueued, the payload of the level
\* the pin then has; and WAIT enqueues a periodic republish only for an actuator whose
\* pin has been written by a successful command since boot.
C32_PayloadMatchesPin ==
    /\ [](\A a \in Actuators :
              isLastStateSet(a)
                  => /\ lastSuccessfulPayload[a] \in {ON, OFF}
                     /\ lastSuccessfulPayload[a] = ON <=> pin[a] = "HIGH"
                     /\ lastSuccessfulPayload[a] = OFF <=> pin[a] = "LOW")
    /\ [][\A item \in AppendedNow :
              item.sourceActuator # nullptr
                  => /\ pin'[item.sourceActuator] \in {"HIGH", "LOW"}
                     /\ item.serializedValue
                            = hardwareStateToPayload(pin'[item.sourceActuator])
                     /\ currentState = "WAIT"
                            => /\ pin[item.sourceActuator] # "UNWRITTEN"
                               /\ isLastStateSet(item.sourceActuator)]_vars

\* the queue holds a periodic republish item of an actuator that a routed command has
\* switched away from its initial state, behind nothing else
C32_Witness ==
    /\ tick.state = "WAIT"
    /\ currentState = "WAIT"
    /\ publishQueue # <<>>
    /\ Head(publishQueue).sourceActuator # nullptr
    /\ LET a == Head(publishQueue).sourceActuator
       IN  /\ pin[a] # initialState[a]
           /\ pin[a] # "UNWRITTEN"
           /\ Head(publishQueue).serializedValue = lastSuccessfulPayload[a]

\* ------------------------------------------------------------------ readback order
\* the items of a queue that come from actuator a, in queue order
RECURSIVE ItemsOf(_, _)
ItemsOf(queue, a) ==
    IF queue = <<>> THEN <<>>
    ELSE IF Head(queue).sourceActuator = a
         THEN <<Head(queue)>> \o ItemsOf(Tail(queue), a)
         ELSE ItemsOf(Tail(queue), a)

\* C33 (readbacks in write order): every successful hardware write appends, in the same
\* iteration, exactly one readback of the written actuator with the written level behind
\* everything already queued; the pin changes in no other step (a reboot aside); items
\* leave the queue only from the front; so under every interleaving of router callbacks
\* and iterations the most recently enqueued item of an actuator that is still queued
\* carries the level its pin has now.
C33_ReadbackOrder ==
    /\ [](\A a \in Actuators :
              ItemsOf(publishQueue, a) # <<>>
                  => Last(ItemsOf(publishQueue, a)).serializedValue
                         = hardwareStateToPayload(pin[a]))
    /\ [][/\ (currentState = "PROCESS_COMMANDS" /\ Iteration /\ tick'.writes = 1)
              => LET a == Head(actuatorsToProcessQueue)
                 IN  /\ Len(publishQueue') = Len(publishQueue) + 1
                     /\ IsPrefix(publishQueue, publishQueue')
                     /\ Last(publishQueue').sourceActuator = a
                     /\ Last(publishQueue').serializedValue
                            = hardwareStateToPayload(pin'[a])
          /\ \A a \in Actuators :
                 (pin'[a] # pin[a] /\ currentState # "RESTART")
                     => /\ currentState = "PROCESS_COMMANDS"
                        /\ tick'.writes = 1
                        /\ a = Head(actuatorsToProcessQueue)
          /\ \/ IsPrefix(publishQueue, publishQueue')
             \/ IsDequeue(publishQueue, publishQueue')
             \/ currentState = "RESTART"]_vars

\* two readbacks of one actuator are queued with different levels: the second command
\* arrived after the actuator had been dequeued and while its first readback was still
\* waiting; the later readback is the level of the pin
C33_Witness ==
    \E a \in Actuators :
        /\ Len(ItemsOf(publishQueue, a)) >= 2
        /\ ItemsOf(publishQueue, a)[1].serializedValue
               # Last(ItemsOf(publishQueue, a)).serializedValue
        /\ Last(ItemsOf(publishQueue, a)).serializedValue = hardwareStateToPayload(pin[a])
        /\ tick.state = "PROCESS_COMMANDS"
        /\ tick.coalesced >= 1

\* ------------------------------------------------------------------ initial state
\* C34 (initial state applied first): when setup() returns every actuator is in the work
\* queue exactly once with the payload of its configured initial state in the pending
\* map, and the first hardware write an actuator receives after boot drives its pin to
\* that configured initial state.
C34_FirstWriteIsInitialState ==
    /\ [](tick.state \in {"none", "RESTART"}
              => /\ actuatorsToProcessQueue = ActuatorPoints
                 /\ NoDuplicates(actuatorsToProcessQueue)
                 /\ \A a \in Actuators :
                        /\ a \in DOMAIN pendingActuatorCommands
                        /\ pendingActuatorCommands[a]
                               = hardwareStateToPayload(initialState[a]))
    /\ [][(currentState = "PROCESS_COMMANDS" /\ Iteration /\ tick'.writes = 1
             /\ pin[Head(actuatorsToProcessQueue)] = "UNWRITTEN")
            => pin'[Head(actuatorsToProcessQueue)]
                   = initialState[Head(actuatorsToProcessQueue)]]_vars

\* ------------------------------------------------------------------ needToRead under direct calls
\* The stamps a sensor can hold: small counter values, the constructor's value of
\* _lastPublishTimeMs, and values just below the wraparound of the counter.
NeedToReadStamps ==
    (0..MaxTime) \cup {ULONG_MAX - publishIntervalMs} \cup (ULONG_MAX - MaxTime..ULONG_MAX)

\* a sensor with any stamps, at any value of millis()
InitNeedToRead ==
    /\ now \in 0..ULONG_MAX
    /\ wifiConnected = TRUE
    /\ mqttConnected = TRUE
    /\ clockValid = TRUE
    /\ epochTime = 0
    /\ nvs = NoRecord
    /\ currentState = "WAIT"
    /\ stateStartTime = 0
    /\ wifiAttempts = 0
    /\ ntpAttempts = 0
    /\ timeSuccessfullySet = TRUE
    /\ lastNtpLoopUpdate = 0
    /\ publishQueue = <<>>
    /\ NoActuators
    /\ sensorsToReadQueue = NoSensors
    /\ sensorsWithPendingData = {}
    /\ lastReadAttemptMs \in [Sensors -> NeedToReadStamps]
    /\ lastPublishTimeMs \in [Sensors -> NeedToReadStamps]
    /\ hasValidReading = [s \in Sensors |-> FALSE]
    /\ bootStatusPublished = TRUE
    /\ lastPeriodicCheck = 0
    /\ callResult = NoCall
    /\ tick = Idle
    /\ bootReports = 0
    /\ wifiBegins = 0
    /\ events = 0

\* sensor->needToRead(millis())
NeedToRead_Call ==
    /\ callResult = NoCall
    /\ \E sensor \in Sensors :
           callResult' = [op |-> "needToRead", arg |-> sensor,
                          result |-> needToRead(sensor, now)]
    /\ UNCHANGED <<envVars, nvs, fsmVars, ntpVars, publishQueue, c2Vars, c3Vars, histVars>>

NextNeedToRead == NeedToRead_Call

SpecNeedToRead == InitNeedToRead /\ [][NextNeedToRead]_vars

\* the retry gate: at least the read duration has passed since the last read attempt
RetryGateOpen(sensor) == USub(now, lastReadAttemptMs[sensor]) >= timeNeededReadMs
\* the publish interval has elapsed since the last confirmed publish
PublishIntervalElapsed(sensor) == USub(now, lastPublishTimeMs[sensor]) >= publishIntervalMs
\* time left until the next publish deadline
TimeUntilDeadline(sensor) == publishIntervalMs - USub(now, lastPublishTimeMs[sensor])
\* how long before the deadline a read is started
ReadLeadTime == timeNeededReadMs + mainLoopDelayMs + SENSOR_PUBLISH_FUDGE_FACTOR

\* C35 (needToRead): needToRead(now) is true if and only if the retry gate is open and
\* either the publish interval has elapsed since the last publish or the time left
\* until the next publish deadline is at most read duration + main loop delay + safety
\* margin; with the deadline further away it is false even with the retry gate open.
C35_NeedToRead ==
    [][NeedToRead_Call
         => LET sensor == callResult'.arg
            IN  /\ callResult'.result
                       <=> /\ RetryGateOpen(sensor)
                           /\ \/ PublishIntervalElapsed(sensor)
                              \/ TimeUntilDeadline(sensor) <= ReadLeadTime
                /\ (~PublishIntervalElapsed(sensor)
                      /\ TimeUntilDeadline(sensor) > ReadLeadTime)
                       => ~callResult'.result]_vars

\* needToRead has just answered no with the retry gate open: the deadline is further
\* away than the lead time
C35_Witness ==
    /\ callResult.op = "needToRead"
    /\ ~callResult.result
    /\ RetryGateOpen(callResult.arg)
    /\ ~PublishIntervalElapsed(callResult.arg)
    /\ TimeUntilDeadline(callResult.arg) > ReadLeadTime

\* a freshly constructed sensor: no read attempted, no publish confirmed
FreshSensor(sensor) ==
    /\ lastReadAttemptMs[sensor] = 0
    /\ lastPublishTimeMs[sensor] = ULONG_MAX - publishIntervalMs

\* C36 (first read is immediate): for a freshly constructed sensor needToRead(now) is
\* true for every now with read duration <= now < ULONG_MAX - publish interval, the
\* differences being taken with unsigned wraparound.
C36_FreshSensorReads ==
    [][(NeedToRead_Call /\ FreshSensor(callResult'.arg)
          /\ timeNeededReadMs <= now /\ now < ULONG_MAX - publishIntervalMs)
         => callResult'.result]_vars

\* needToRead has just answered yes for a fresh sensor as soon as the read duration has
\* passed since boot
C36_Witness ==
    /\ callResult.op = "needToRead"
    /\ callResult.result
    /\ FreshSensor(callResult.arg)
    /\ now = timeNeededReadMs

\* ------------------------------------------------------------------ readings of a read cycle
\* C37 (no stale readings): getAllReadings is non-empty only when the most recent read()
\* succeeded: it is empty before any read and after a failed read, even if an earlier
\* read succeeded; a READ_SENSORS iteration whose read fails leaves the publish queue as
\* it was, and one whose read succeeds appends exactly the readings of that read.
C37_OnlyFreshReadings ==
    /\ [](\A sensor \in Sensors :
              /\ getAllReadings(sensor, hasValidReading[sensor], EmptyString, 1) # <<>>
                     => hasValidReading[sensor]
              /\ (lastReadAttemptMs[sensor] = 0 /\ tick.state \in {"none", "RESTART"})
                     => getAllReadings(sensor, hasValidReading[sensor], EmptyString, 1) = <<>>)
    /\ [][(C3_ReadSensors /\ C3_queueAtSwitch.queue # <<>>)
            => LET sensor == Head(C3_queueAtSwitch.queue)
                   readTimestamp == getFormattedISO8601Time(timeSuccessfullySet)
               IN  /\ hasValidReading'[sensor] = tick'.ok
                   /\ ~tick'.ok
                         => /\ publishQueue' = publishQueue
                            /\ getAllReadings(sensor, hasValidReading'[sensor],
                                              readTimestamp, 1) = <<>>
                   /\ tick'.ok
                         => /\ publishQueue' = publishQueue
                                   \o getAllReadings(sensor, hasValidReading'[sensor],
                                                     readTimestamp, 1)
                            /\ Len(publishQueue') = Len(publishQueue) + Len(ReadingKinds)]_vars

\* a read has just failed on a sensor whose earlier readings were published: it has no
\* valid reading and nothing is queued
C37_Witness ==
    /\ tick.state = "READ_SENSORS"
    /\ ~tick.ok
    /\ publishQueue = <<>>
    /\ \E sensor \in Sensors :
           /\ ~hasValidReading[sensor]
           /\ lastReadAttemptMs[sensor] = now
           /\ lastPublishTimeMs[sensor] # ULONG_MAX - publishIntervalMs

\* ------------------------------------------------------------------ publishJson under direct calls
\* value texts handed to publishJson: restart reasons, actuator payloads, a reading
PublishValues ==
    {restartReasonToString(reason) : reason \in RestartReasons} \cup {ON, OFF, <<"reading">>}
\* timestamps and identifiers handed to publishJson: missing or present
PublishTimestamps == {EmptyString, <<"Time not set">>, <<"iso", "0">>}
PublishUuids == {EmptyString, <<"uuid">>}

\* one item about to be published, the transport connected or not
InitPublishJson ==
    /\ now = 0
    /\ wifiConnected = TRUE
    /\ mqttConnected \in BOOLEAN
    /\ clockValid = TRUE
    /\ epochTime = 0
    /\ nvs = NoRecord
    /\ currentState = "PUBLISH_DATA"
    /\ stateStartTime = 0
    /\ wifiAttempts = 0
    /\ ntpAttempts = 0
    /\ timeSuccessfullySet = TRUE
    /\ lastNtpLoopUpdate = 0
    /\ \E timestamp \in PublishTimestamps, uuid \in PublishUuids, value \in PublishValues :
           publishQueue = <<PublishData(<<"topic">>, uuid, value, timestamp, nullptr, nullptr)>>
    /\ NoActuators
    /\ sensorsToReadQueue = NoSensors
    /\ sensorsWithPendingData = {}
    /\ lastReadAttemptMs = <<>>
    /\ lastPublishTimeMs = <<>>
    /\ hasValidReading = <<>>
    /\ bootStatusPublished = TRUE
    /\ lastPeriodicCheck = 0
    /\ callResult = NoCall
    /\ tick = Idle
    /\ bootReports = 0
    /\ wifiBegins = 0
    /\ events = 0

\* mqttService.publishJson(topic, timestamp, uuid, value) on the item at the front
PublishJson_Call ==
    /\ callResult = NoCall
    /\ publishQueue # <<>>
    /\ \E transportOk \in BOOLEAN :
           LET item == Head(publishQueue)
           IN  callResult' =
                   [op |-> "publishJson",
                    arg |-> [item |-> item, transportOk |-> transportOk],
                    result |-> publishJson(item.timestampIsoUtc, item.uuid,
                                           item.serializedValue, transportOk)]
    /\ UNCHANGED <<envVars, nvs, fsmVars, ntpVars, publishQueue, c2Vars, c3Vars, histVars>>

NextPublishJson == PublishJson_Call

SpecPublishJson == InitPublishJson /\ [][NextPublishJson]_vars

\* C38 (publishJson failures): publishJson reports failure only when the transport is
\* disconnected, the timestamp or the identifier is missing, or the transport rejects
\* the send; for a connected transport and an item with a timestamp and an identifier
\* the result is the transport's, whatever the value text is.
C38_WellFormedIsSent ==
    [][PublishJson_Call
         => LET item == callResult'.arg.item
            IN  ~callResult'.result
                    <=> \/ ~mqttConnected
                        \/ item.timestampIsoUtc = EmptyString
                        \/ item.uuid = EmptyString
                        \/ ~callResult'.arg.transportOk]_vars

C3_Loop ==
    \/ C3_SetupHw
    \/ C3_ConnectWifi
    \/ C3_SyncNtp
    \/ C3_ConnectMqtt
    \/ C3_PublishBootStatus
    \/ C3_ReadSensors
    \/ C3_PublishData
    \/ C3_PeriodicChecks
    \/ C3_Wait
    \/ C3_Restart

\* WiFi and the broker, once connected, stay connected until the next reboot
NextStable3 ==
    \/ AdvanceTime
    \/ WifiUp
    \/ ClockSync
    \/ C3_SetupHw
    \/ C3_ConnectWifi
    \/ C3_SyncNtp
    \/ C3_ConnectMqtt
    \/ C3_PublishBootStatus
    \/ C3_ReadSensors
    \/ C3_PublishData
    \/ C3_PeriodicChecks
    \/ C3_Wait
    \/ C3_Restart

\* the Arduino core calls loop() again and again
SpecStable3 == Init3 /\ [][NextStable3]_vars /\ WF_vars(C3_Loop)

\* a step that puts no item into the publish queue
NoProduction == Len(publishQueue') <= Len(publishQueue)

\* C40 (the publish queue drains): a PUBLISH_DATA iteration with the transport connected
\* hands exactly the item at the front of the queue to the transport and removes it, one
\* item per iteration; items leave the queue in no other way (a reboot aside) and the
\* rest keeps its order; and when from some point on the transport stays connected and
\* no new item is produced, the queue eventually is empty and stays empty.
C40_QueueDrains ==
    /\ [][/\ (currentState = "PUBLISH_DATA" /\ Iteration /\ mqttConnected
                /\ publishQueue # <<>>)
               => /\ publishQueue' = Tail(publishQueue)
                  /\ tick'.sent = 1
          /\ Len(publishQueue') < Len(publishQueue)
               => \/ currentState = "RESTART"
                  \/ /\ currentState = "PUBLISH_DATA"
                     /\ mqttConnected
                     /\ IsDequeue(publishQueue, publishQueue')
                     /\ tick'.sent = 1
          /\ \/ IsPrefix(publishQueue, publishQueue')
             \/ IsDequeue(publishQueue, publishQueue')
             \/ currentState = "RESTART"]_vars
    /\ (<>[](wifiConnected /\ mqttConnected) /\ <>[][NoProduction]_vars)
           => <>[](publishQueue = <<>>)

\* the boot report and the readings of a read have all been handed to the transport, the
\* last one just now, and the queue is empty
C40_Witness ==
    /\ tick.state = "PUBLISH_DATA"
    /\ tick.sent = 1
    /\ publishQueue = <<>>
    /\ currentState = "WAIT"
    /\ mqttConnected
    /\ bootStatusPublished
    /\ \E sensor \in Sensors :
           /\ hasValidReading[sensor]
           /\ lastPublishTimeMs[sensor] # ULONG_MAX - publishIntervalMs

====
